---- MODULE Spec2Model ----
(***************************************************************************)
(* Attendance capture and pending-review workflow of the smart attendance  *)
(* backend (backend/main.py, backend/services/attendance_service.py,       *)
(* backend/services/face_recognition_service.py, siamese_network.py,       *)
(* qr_service.py, notification_service.py, backend/database.py).           *)
(*                                                                         *)
(* The state is the content of the three tables the capture and review     *)
(* handlers read and write (students, attendance_records,                  *)
(* pending_verifications), the wall clock, the environment settings the    *)
(* services read at construction, and the last operation with its          *)
(* response.  Every handler is one action: the handlers are `async def`    *)
(* bodies whose database calls are synchronous, so a handler runs from its *)
(* first query to its last commit without yielding to another request.     *)
(* For each handler H, H_result(inputs) is what H leaves in the tables and *)
(* answers when it is called in the current state, and the action H        *)
(* installs that result.                                                   *)
(*                                                                         *)
(* Units: a time of day is a number of minutes since midnight, a           *)
(* similarity or confidence is a number of hundredths (0.6 is 60).         *)
(***************************************************************************)
EXTENDS Integers, Sequences, FiniteSets, TLC

(***************************************************************************)
(* Bounds of the model.                                                    *)
(***************************************************************************)
\* most attendance records the model lets the table hold
MaxRecords == 2
\* most attendance records the table holds where the reviews are explored
MaxReviewed == 1
\* days the clock runs through
MaxDay == 2
\* minutes the clock runs before and past the cutoff
TimeSpan == 1
\* requests in flight at a time
MaxTasks == 2

(***************************************************************************)
(* Program constants.                                                      *)
(***************************************************************************)
\* time(8, 45): the cutoff main.py writes out in each of its handlers
cutoff_time == 525
\* os.getenv("ATTENDANCE_CUTOFF_TIME", "08:45"): AttendanceService's default
DEFAULT_ATTENDANCE_CUTOFF_TIME == 525
\* os.getenv("SIAMESE_THRESHOLD", "0.6"): SiameseNetworkService's threshold
SIAMESE_THRESHOLD == 60
\* SIAMESE_THRESHOLD=0.4: the setting create_env.py writes to the .env file
\* that load_dotenv reads before the services are constructed
ENV_FILE_SIAMESE_THRESHOLD == 40
\* os.getenv("LIVENESS_THRESHOLD", "0.35"): the liveness score a live frame reaches
LIVENESS_THRESHOLD == 35
\* weights of the face mesh, texture and colour scores in the liveness score
MESH_WEIGHT == 50
TEXTURE_WEIGHT == 30
COLOR_WEIGHT == 20
\* threshold=0.4 and best_confidence > 0.4 of create_pending_verification
IDENTIFY_THRESHOLD == 40
\* threshold: float = 0.5, the default of FaceRecognitionService.verify_face
VERIFY_FACE_DEFAULT_THRESHOLD == 50
\* best_confidence > 0.5 of identify_student_from_face
IDENTIFY_FACE_CONFIDENCE == 50
\* face_confidence = 1.0 of the encode-on-first-sight path
FIRST_SIGHT_CONFIDENCE == 100
\* os.getenv("USE_SIAMESE_NETWORK", "true") and ("ENABLE_LIVENESS_DETECTION", "true")
use_siamese == TRUE
enable_liveness == TRUE

None == "None"
UNKNOWN == "UNKNOWN"

\* the students table, in the order a query without ORDER BY returns its rows
StudentOrder == <<"s1", "s2">>
Students == {StudentOrder[i] : i \in 1..Len(StudentOrder)}
\* register numbers a request may carry: the students' and one nobody has
RegisterNumbers == Students \cup {"s9"}

\* the clock runs from TimeSpan minutes before the cutoff to TimeSpan past it
Times == cutoff_time..(cutoff_time + TimeSpan)
Days == 1..MaxDay
\* similarities the matcher may compute for an image against a stored embedding
LowSim == SIAMESE_THRESHOLD - 30
MidSim == SIAMESE_THRESHOLD - 5
HighSim == SIAMESE_THRESHOLD + 20
Sims == {LowSim, MidSim, HighSim}

\* users of the system: username |-> role
Role(u) == IF u = "hod" THEN "department" ELSE "operator"
Users == {"hod", "op"}

(***************************************************************************)
(* A captured face image, as far as the services can tell images apart:    *)
(* whether a face is found in it (encode_face returns an embedding), the   *)
(* similarity of that embedding to each student's stored embedding, and    *)
(* what the liveness evaluator answers for it.  The images a request may   *)
(* carry: the first student live, at each similarity; the second student   *)
(* live, resembling the first; a replayed photograph of the first student; *)
(* and a picture without a face.                                           *)
(***************************************************************************)
Image(face, live, sim1, sim2) ==
    [face |-> face, live |-> live,
     sim |-> [r \in Students |-> IF r = StudentOrder[1] THEN sim1 ELSE sim2]]

Images ==
    {Image(TRUE, TRUE, s1, LowSim) : s1 \in Sims}
    \cup {Image(TRUE, TRUE, MidSim, HighSim),
          Image(TRUE, FALSE, HighSim, LowSim),
          Image(FALSE, TRUE, LowSim, LowSim)}

\* similarities at, between and around the thresholds the code names
ProbeSims ==
    Sims \cup {IDENTIFY_THRESHOLD, VERIFY_FACE_DEFAULT_THRESHOLD, SIAMESE_THRESHOLD}

\* the images the face services are probed with: every pair of similarities,
\* live and not, and a picture without a face
Probes ==
    {Image(TRUE, live, s1, s2) : live \in BOOLEAN, s1 \in ProbeSims, s2 \in ProbeSims}
    \cup {Image(FALSE, TRUE, LowSim, LowSim)}

\* the threshold arguments verify_face is called with
Thresholds == {IDENTIFY_THRESHOLD, VERIFY_FACE_DEFAULT_THRESHOLD, SIAMESE_THRESHOLD}

VARIABLES
    students,               \* register_number |-> [is_active, face_encoding (stored or not)]
    attendance_records,     \* table attendance_records, a row's id is its index
    pending_verifications,  \* table pending_verifications, a row's id is its index
    now,                    \* datetime.now(): [day, time]
    env,                    \* the environment the services read when constructed
    last,                   \* the last operation, what it was called for, its response
    loop                    \* the event loop: the task it is running, the requests in flight

vars == <<students, attendance_records, pending_verifications, now, env, last, loop>>

(***************************************************************************)
(* The liveness evaluator.  A frame is what the evaluator meets in the     *)
(* bytes of an image: whether they decode, whether the colour conversion   *)
(* raises, what the face mesh does with the frame (MediaPipe is not        *)
(* available, it resolves no landmarks, it raises, or it gives the         *)
(* landmarks a score), and the texture and the colour scores.  Scores are   *)
(* hundredths.                                                             *)
(***************************************************************************)
Scores == {0, 50, 100}
MeshStates == {"unavailable", "no_landmarks", "raises", "scored"}

\* the mesh score is there when the mesh has scored the landmarks
Frames ==
    {frame \in [decodes : BOOLEAN, raises : BOOLEAN, mesh_state : MeshStates,
                mesh : Scores, texture : Scores, color : Scores] :
        frame.mesh_state # "scored" => frame.mesh = 0}

\* SiameseNetworkService._check_face_mesh_liveness
check_face_mesh_liveness(frame) ==
    IF frame.mesh_state = "unavailable" THEN 100
    ELSE IF frame.mesh_state = "no_landmarks" THEN 0
    ELSE IF frame.mesh_state = "raises" THEN 100
    ELSE frame.mesh

\* SiameseNetworkService.check_liveness on a frame: <<is_live, liveness_score>>
siamese_check_liveness(frame) ==
    LET liveness_score == (check_face_mesh_liveness(frame) * MESH_WEIGHT
                           + frame.texture * TEXTURE_WEIGHT
                           + frame.color * COLOR_WEIGHT) \div 100
    IN IF ~frame.decodes THEN <<FALSE, 0>>
       ELSE IF frame.raises THEN <<TRUE, 100>>
       ELSE <<liveness_score >= LIVENESS_THRESHOLD, liveness_score>>

\* FaceRecognitionService.check_liveness on a frame
face_service_check_liveness(frame) ==
    IF use_siamese /\ enable_liveness THEN siamese_check_liveness(frame)
    ELSE <<TRUE, 100>>

\* the image of a frame in which a face is found at similarities sim1 and sim2:
\* it is live as the evaluator answers for the frame
ImageOf(frame, sim1, sim2) ==
    Image(frame.decodes, siamese_check_liveness(frame)[1], sim1, sim2)

(***************************************************************************)
(* Face services.                                                          *)
(***************************************************************************)
\* SiameseNetworkService.encode_face: an embedding, or None when no face is found
encode_face(img) == img.face

\* SiameseNetworkService.check_liveness: is_live of the (is_live, score) it returns
check_liveness(img) == img.live

\* a comparison that reads the similarity as a distance
is_match_distance(similarity, threshold) == similarity <= threshold

\* is_match = similarity >= threshold
is_match(similarity, threshold) == similarity >= threshold

\* a matcher that reads the similarity as a distance
siamese_verify_face_inverted(img, reg) ==
    IF ~encode_face(img)
    THEN <<FALSE, 0>>
    ELSE <<img.sim[reg] <= env.SIAMESE_THRESHOLD, img.sim[reg]>>

\* a matcher that leaves the threshold out
siamese_verify_face_lenient(img, reg) ==
    IF ~encode_face(img)
    THEN <<FALSE, 0>>
    ELSE <<TRUE, img.sim[reg]>>

\* SiameseNetworkService.verify_face: <<is_match, confidence>> against the
\* embedding stored for student reg, at the service's own threshold
\* (self.threshold, read from the environment when the service is constructed)
siamese_verify_face(img, reg) ==
    IF ~encode_face(img)
    THEN <<FALSE, 0>>
    ELSE <<is_match(img.sim[reg], env.SIAMESE_THRESHOLD), img.sim[reg]>>

\* SiameseNetworkService.verify_face_with_liveness: <<is_match, confidence, is_live>>
siamese_verify_face_with_liveness(img, reg, check) ==
    IF check /\ ~check_liveness(img)
    THEN <<FALSE, 0, FALSE>>
    ELSE LET r == siamese_verify_face(img, reg) IN <<r[1], r[2], TRUE>>

\* FaceRecognitionService.verify_face: with the Siamese network in use the
\* threshold argument is dropped; without it the similarity is computed from
\* the JSON text of the new embedding, which cosine_similarity answers with 0.0
verify_face(img, reg, threshold) ==
    IF use_siamese
    THEN siamese_verify_face(img, reg)
    ELSE IF ~encode_face(img) THEN <<FALSE, 0>> ELSE <<is_match(0, threshold), 0>>

\* FaceRecognitionService.verify_face_with_liveness
verify_face_with_liveness(img, reg) ==
    IF use_siamese /\ enable_liveness
    THEN siamese_verify_face_with_liveness(img, reg, TRUE)
    ELSE LET r == verify_face(img, reg, VERIFY_FACE_DEFAULT_THRESHOLD)
         IN <<r[1], r[2], TRUE>>

(***************************************************************************)
(* Identification: the scan over the students table that every face-only   *)
(* path runs, `if is_match and confidence > best_confidence`.  cand[r] is   *)
(* <<r is considered and is_match, confidence>>.                           *)
(***************************************************************************)
RECURSIVE scan_best(_, _, _, _)
scan_best(cand, i, best, conf) ==
    IF i > Len(StudentOrder)
    THEN <<best, conf>>
    ELSE LET r == StudentOrder[i]
         IN IF cand[r][1] /\ cand[r][2] > conf
            THEN scan_best(cand, i + 1, r, cand[r][2])
            ELSE scan_best(cand, i + 1, best, conf)

\* FaceRecognitionService.find_matching_student: <<student, confidence>>, student
\* None when nobody matches
find_matching_student(img) ==
    scan_best([r \in Students |->
                  LET v == verify_face(img, r, VERIFY_FACE_DEFAULT_THRESHOLD)
                  IN <<students[r].is_active /\ students[r].face_encoding /\ v[1], v[2]>>],
              1, None, 0)

(***************************************************************************)
(* Notification.                                                           *)
(***************************************************************************)
\* notification_service.send_attendance_notification(attendance_record_id, db):
\* NotificationService defines send_email, send_absent_notification,
\* send_late_notification, send_pending_verification_notification and
\* send_hod_daily_summary, and no send_attendance_notification: the call raises
\* AttributeError, which every caller catches and logs.
send_attendance_notification == "AttributeError"

\* main.send_late_notification: the record as the attempt to notify leaves it
send_late_notification(rec) ==
    IF send_attendance_notification = "success"
    THEN [rec EXCEPT !.notification_sent = TRUE]
    ELSE rec

\* the same attempt as the AttendanceService handlers make it after their commit
notify_after_commit(rec) ==
    IF send_attendance_notification = "success"
    THEN [rec EXCEPT !.notification_sent = TRUE]
    ELSE rec

(***************************************************************************)
(* Identity tokens.  What a call carries as its token: nothing, the bytes  *)
(* of a photographed ID card (printed with a register number, or           *)
(* unreadable), or the mapping an earlier decode already produced.         *)
(***************************************************************************)
NoQr == [kind |-> "none", reg |-> None]
QrImage(r) == [kind |-> "image", reg |-> r]
QrDict(r) == [kind |-> "dict", reg |-> r]
QrImages == {QrImage(r) : r \in RegisterNumbers \cup {None}}

\* QRBarcodeService.decode_qr_from_image: the mapping carrying the register
\* number read from the image, or None; anything but image bytes makes
\* np.frombuffer raise, which the method catches to return None
decode_qr_from_image(data) ==
    IF data.kind = "image" /\ data.reg # None THEN QrDict(data.reg) ELSE NoQr

\* QRBarcodeService.verify_student_qr: the active student the mapping names, or None
verify_student_qr(qr) ==
    IF qr.kind = "dict" /\ qr.reg \in Students /\ students[qr.reg].is_active
    THEN qr.reg
    ELSE None

(***************************************************************************)
(* Tables.                                                                 *)
(***************************************************************************)
\* AttendanceRecord(...): a new row, created now
AttendanceRecord(reg, status, method, confidence, qr, vstatus) ==
    [student_register_number |-> reg,
     date |-> now.day,
     time |-> now.time,
     status |-> status,
     verification_method |-> method,
     face_confidence |-> confidence,
     qr_verified |-> qr,
     verification_status |-> vstatus,
     verified_by |-> None,
     verification_notes |-> None,
     notification_sent |-> FALSE]

\* PendingVerification(...): a new row, created now, for attendance record att_id
PendingVerification(att_id, reg, confidence, manual, notes) ==
    [attendance_record_id |-> att_id,
     student_register_number |-> reg,
     date |-> now.day,
     time |-> now.time,
     face_confidence |-> confidence,
     manual_register_number |-> manual,
     status |-> "pending",
     reviewed_by |-> None,
     review_notes |-> notes]

\* db.query(AttendanceRecord).filter(student_register_number == reg, date == day):
\* the ids of the rows the duplicate check finds
existing_attendance(reg, day) ==
    {i \in 1..Len(attendance_records) :
        /\ attendance_records[i].student_register_number = reg
        /\ attendance_records[i].date = day}

\* a split that counts the cutoff itself as late
is_late_inclusive(t, cutoff) == t >= cutoff

\* current_time.time() > cutoff
is_late(t, cutoff) == t > cutoff

\* what a handler leaves and answers
Result(st, att, pv, resp) ==
    [students |-> st, attendance_records |-> att, pending_verifications |-> pv,
     resp |-> resp]

\* a handler that writes nothing
NoWrite(resp) == Result(students, attendance_records, pending_verifications, resp)

Response(code, case, status, attendance_status, message) ==
    [code |-> code, case |-> case, status |-> status,
     attendance_status |-> attendance_status, message |-> message]

(***************************************************************************)
(* POST /mark_attendance_verified                                          *)
(***************************************************************************)
mark_attendance_verified_result(img, id_register_number) ==
    LET reg == id_register_number
        found == reg \in Students /\ students[reg].is_active
        enrolled == found /\ students[reg].face_encoding
        \* verify against the stored embedding, or store the embedding of this
        \* image and accept it
        v == IF enrolled THEN verify_face_with_liveness(img, reg)
             ELSE IF encode_face(img) THEN <<TRUE, FIRST_SIGHT_CONFIDENCE, TRUE>>
             ELSE <<FALSE, 0, TRUE>>
        students1 == IF found /\ ~enrolled /\ encode_face(img)
                     THEN [students EXCEPT ![reg].face_encoding = TRUE]
                     ELSE students
        late == is_late(now.time, cutoff_time)
        rec == AttendanceRecord(reg, IF late THEN "Late" ELSE "Present", "face_id",
                                v[2], TRUE, "verified")
    IN
    IF ~found
    THEN NoWrite(Response(200, "B", "error", None, "retry"))
    ELSE IF existing_attendance(reg, now.day) # {}
    THEN Result(students1, attendance_records, pending_verifications,
                Response(200, None, "error", None, "duplicate"))
    ELSE IF v[1]
    THEN Result(students1,
                Append(attendance_records,
                       IF late THEN send_late_notification(rec) ELSE rec),
                pending_verifications,
                Response(200, IF late THEN "D" ELSE "A", "success", rec.status,
                         "recorded"))
    ELSE Result(students1, attendance_records, pending_verifications,
                Response(200, "B", "error", None, "retry"))

(***************************************************************************)
(* AttendanceService.mark_attendance and its three handlers.               *)
(***************************************************************************)
\* _handle_face_qr_attendance
handle_face_qr_attendance(img, qr_data) ==
    LET qr_decoded == decode_qr_from_image(qr_data)
        student == verify_student_qr(qr_decoded)
        v == IF student # None /\ students[student].face_encoding
             THEN verify_face(img, student, VERIFY_FACE_DEFAULT_THRESHOLD)
             ELSE <<FALSE, 0>>
        status == IF is_late(now.time, env.ATTENDANCE_CUTOFF_TIME) THEN "Late"
                  ELSE "Present"
        rec == AttendanceRecord(student, status, "face_qr", v[2], TRUE, "verified")
    IN
    IF qr_decoded = NoQr
    THEN NoWrite(Response(200, None, "error", None, "invalid_qr"))
    ELSE IF student = None
    THEN NoWrite(Response(200, None, "error", None, "student_not_found"))
    ELSE IF existing_attendance(student, now.day) # {}
    THEN NoWrite(Response(200, None, "error", None, "duplicate"))
    ELSE IF ~v[1]
    THEN NoWrite(Response(200, None, "error", None, "face_failed"))
    ELSE Result(students,
                Append(attendance_records,
                       IF status = "Late" THEN notify_after_commit(rec) ELSE rec),
                pending_verifications,
                Response(200, None, "success", status, "recorded"))

\* _handle_forgot_id_attendance
handle_forgot_id_attendance(img, register_number) ==
    LET found == register_number \in Students /\ students[register_number].is_active
        v == IF found /\ students[register_number].face_encoding
             THEN verify_face(img, register_number, VERIFY_FACE_DEFAULT_THRESHOLD)
             ELSE <<FALSE, 0>>
        rec == AttendanceRecord(register_number, "Pending", "face_only", v[2], FALSE,
                                "pending")
    IN
    IF ~found
    THEN NoWrite(Response(200, None, "error", None, "student_not_found"))
    ELSE IF existing_attendance(register_number, now.day) # {}
    THEN NoWrite(Response(200, None, "error", None, "duplicate"))
    ELSE IF ~v[1]
    THEN NoWrite(Response(200, None, "error", None, "face_failed"))
    ELSE Result(students, Append(attendance_records, notify_after_commit(rec)),
                pending_verifications,
                Response(200, None, "success", "Pending", "pending"))

\* _handle_face_only_attendance
handle_face_only_attendance(img) ==
    LET match_result == find_matching_student(img)
        student == match_result[1]
        rec == AttendanceRecord(student, "Pending", "face_only", match_result[2], FALSE,
                                "pending")
    IN
    IF student = None
    THEN NoWrite(Response(200, None, "error", None, "no_match"))
    ELSE IF existing_attendance(student, now.day) # {}
    THEN NoWrite(Response(200, None, "error", None, "duplicate"))
    ELSE Result(students, Append(attendance_records, notify_after_commit(rec)),
                pending_verifications,
                Response(200, None, "success", "Pending", "pending"))

\* AttendanceService.mark_attendance(image_data, qr_data, manual_register_number, db):
\* the handler is chosen by what the call carries
mark_attendance_result(img, qr_data, manual_register_number) ==
    IF qr_data # NoQr THEN handle_face_qr_attendance(img, qr_data)
    ELSE IF manual_register_number # None
    THEN handle_forgot_id_attendance(img, manual_register_number)
    ELSE handle_face_only_attendance(img)

\* POST /mark_attendance: the endpoint decodes the token image itself and hands
\* the decoded mapping on as qr_data; for a Pending or a Late result it makes
\* the attempt to notify again and rewrites the message
mark_attendance_with_liveness_result(img, qr_image, register_number) ==
    LET result == mark_attendance_result(img,
                                         IF qr_image = NoQr THEN NoQr
                                         ELSE decode_qr_from_image(qr_image),
                                         register_number)
        notified == [i \in 1..Len(result.attendance_records) |->
                        IF i = Len(result.attendance_records)
                        THEN send_late_notification(result.attendance_records[i])
                        ELSE result.attendance_records[i]]
    IN
    IF result.resp.attendance_status \in {"Pending", "Late"}
    THEN [result EXCEPT !.attendance_records = notified,
                        !.resp.message = "email_sent"]
    ELSE result

(***************************************************************************)
(* POST /create_pending_verification                                       *)
(***************************************************************************)
create_pending_verification_result(img) ==
    LET best == scan_best([r \in Students |->
                              LET v == verify_face(img, r, IDENTIFY_THRESHOLD)
                              IN <<students[r].is_active /\ students[r].face_encoding
                                       /\ v[1], v[2]>>],
                          1, None, 0)
        identified_student == IF best[1] # None /\ best[2] > IDENTIFY_THRESHOLD
                              THEN best[1] ELSE None
        face_confidence == IF identified_student # None THEN best[2] ELSE 0
        reg == IF identified_student # None THEN identified_student ELSE UNKNOWN
        temp_attendance == AttendanceRecord(reg, "Pending", "face_only_no_id",
                                            face_confidence, FALSE, "pending")
        pending_verification ==
            PendingVerification(Len(attendance_records) + 1, reg, face_confidence, None,
                                IF identified_student # None THEN "identified"
                                ELSE "not_identified")
    IN Result(students,
              Append(attendance_records, temp_attendance),
              Append(pending_verifications, pending_verification),
              Response(200, "C", "pending_verification", None, "pending"))

(***************************************************************************)
(* POST /identify_student_from_face                                        *)
(***************************************************************************)
\* what the endpoint answers: identified, and for whom with what confidence
Identification(identified, register_number, confidence) ==
    [code |-> 200, identified |-> identified, register_number |-> register_number,
     confidence |-> confidence]

identify_student_from_face_result(img) ==
    LET best == scan_best([r \in Students |->
                              LET v == verify_face_with_liveness(img, r)
                              IN <<students[r].is_active /\ students[r].face_encoding
                                       /\ v[3] /\ v[1], v[2]>>],
                          1, None, 0)
    IN IF best[1] # None /\ best[2] > IDENTIFY_FACE_CONFIDENCE
       THEN NoWrite(Identification(TRUE, best[1], best[2]))
       ELSE NoWrite(Identification(FALSE, None, 0))

(***************************************************************************)
(* POST /create_manual_pending_verification                                *)
(***************************************************************************)
create_manual_pending_verification_result(manual_register_number, identified_register_number) ==
    LET verification_notes ==
            IF identified_register_number = "" THEN "not_identified"
            ELSE IF identified_register_number = manual_register_number
            THEN "confirmed"
            ELSE "warning"
        temp_attendance == AttendanceRecord(manual_register_number, "Pending",
                                            "forgot_id_manual", 0, FALSE, "pending")
        pending_verification ==
            PendingVerification(Len(attendance_records) + 1, manual_register_number, 0,
                                IF identified_register_number # manual_register_number
                                THEN manual_register_number ELSE None,
                                verification_notes)
    IN
    IF manual_register_number \notin Students
    THEN NoWrite(Response(404, None, "error", None, "student_not_found"))
    ELSE Result(students,
                Append(attendance_records, temp_attendance),
                Append(pending_verifications, pending_verification),
                Response(200, "C", "pending_verification", None, "pending"))

(***************************************************************************)
(* The notifications of the captures without a token, and the              *)
(* notification_sent their responses report.                               *)
(***************************************************************************)
\* main.send_forgot_id_notification: composes the two messages and logs
\* them ("implement actual notification service as needed"); nothing is sent,
\* nothing raises
send_forgot_id_notification == [raises |-> FALSE, dispatched |-> FALSE]

\* main.send_case_c_notification: if there is a notification service, stores
\* a notification for the HOD and one for the parents; whatever fails is
\* caught and logged, never raised
send_case_c_notification(available, stored) ==
    [raises |-> FALSE, dispatched |-> available /\ stored]

\* notification_sent of the response of POST /create_pending_verification:
\* set after the await, if a student was identified
create_pending_verification_notification_sent(img, available, stored) ==
    LET r == create_pending_verification_result(img)
        identified_student ==
            r.attendance_records[Len(r.attendance_records)].student_register_number
    IN identified_student # UNKNOWN /\ ~send_case_c_notification(available, stored).raises

\* notification_sent of the response of POST /create_manual_pending_verification
create_manual_pending_verification_notification_sent ==
    ~send_forgot_id_notification.raises

(***************************************************************************)
(* Resolution of pending attendance.                                       *)
(***************************************************************************)
\* current_user.role not in ["admin", "department"]
authorized(user) == Role(user) \in {"admin", "department"}

\* str.lower() of the actions a request may carry
lower(action) == IF action = "APPROVE" THEN "approve" ELSE action

\* AttendanceService.verify_pending_attendance
service_verify_pending_attendance(attendance_id, action, verifier_username, notes) ==
    LET found == /\ attendance_id \in 1..Len(attendance_records)
                 /\ attendance_records[attendance_id].verification_status = "pending"
        attendance == attendance_records[attendance_id]
        approved == [attendance EXCEPT
                        !.status = IF is_late(attendance.time, env.ATTENDANCE_CUTOFF_TIME)
                                   THEN "Late" ELSE "Present",
                        !.verification_status = "verified",
                        !.verified_by = verifier_username,
                        !.verification_notes = notes]
        rejected == [attendance EXCEPT
                        !.verification_status = "rejected",
                        !.verified_by = verifier_username,
                        !.verification_notes = notes]
    IN
    IF ~found
    THEN NoWrite(Response(200, None, "error", None, "not_found"))
    ELSE IF lower(action) = "approve"
    THEN Result(students, [attendance_records EXCEPT ![attendance_id] = approved],
                pending_verifications,
                Response(200, None, "success", approved.status, "approved"))
    ELSE IF lower(action) = "reject"
    THEN Result(students, [attendance_records EXCEPT ![attendance_id] = rejected],
                pending_verifications,
                Response(200, None, "success", rejected.status, "rejected"))
    ELSE NoWrite(Response(200, None, "error", None, "invalid_action"))

\* POST /verify_pending
verify_pending_result(attendance_id, action, user, notes) ==
    LET result == service_verify_pending_attendance(attendance_id, action, user, notes)
    IN
    IF ~authorized(user)
    THEN NoWrite(Response(403, None, "error", None, "not_authorized"))
    ELSE IF result.resp.status = "error"
    THEN NoWrite([result.resp EXCEPT !.code = 400])
    ELSE result

\* POST /verify_pending_attendance/{verification_id}: every HTTPException the
\* body raises is caught by its own `except Exception` and answered with 500;
\* the approve branch reads pending_verification.timestamp, which
\* PendingVerification does not have, and ends the same way
verify_pending_attendance_result(verification_id, action, register_number, user) ==
    IF ~authorized(user)
    THEN NoWrite(Response(500, None, "error", None, "not_authorized"))
    ELSE IF verification_id \notin 1..Len(pending_verifications)
    THEN NoWrite(Response(500, None, "error", None, "not_found"))
    ELSE IF action = "approve"
    THEN IF register_number = None
         THEN NoWrite(Response(500, None, "error", None, "register_number_required"))
         ELSE IF register_number \notin Students
         THEN NoWrite(Response(500, None, "error", None, "student_not_found"))
         ELSE NoWrite(Response(500, None, "error", None, "AttributeError"))
    ELSE IF action = "reject"
    THEN Result(students, attendance_records,
                [pending_verifications EXCEPT ![verification_id].status = "rejected"],
                Response(200, None, "rejected", None, "rejected"))
    ELSE NoWrite(Response(500, None, "error", None, "invalid_action"))

\* POST /attendance/verify
attendance_verify_result(verification_id, action, notes, user) ==
    LET pending_record == pending_verifications[verification_id]
        att_id == pending_record.attendance_record_id
        attendance_record == attendance_records[att_id]
        pv1 == [pending_record EXCEPT !.status = action,
                                      !.reviewed_by = user,
                                      !.review_notes = notes]
        att1 == IF action = "approve"
                THEN [attendance_record EXCEPT
                         !.status = IF is_late(attendance_record.time, cutoff_time)
                                    THEN "Late" ELSE "Present",
                         !.verification_status = "verified",
                         !.verified_by = user]
                ELSE [attendance_record EXCEPT
                         !.status = "Absent",
                         !.verification_status = "rejected",
                         !.verified_by = user]
    IN
    IF ~authorized(user)
    THEN NoWrite(Response(403, None, "error", None, "not_authorized"))
    ELSE IF verification_id \notin 1..Len(pending_verifications)
    THEN NoWrite(Response(404, None, "error", None, "not_found"))
    ELSE Result(students,
                [attendance_records EXCEPT ![att_id] = att1],
                [pending_verifications EXCEPT ![verification_id] = pv1],
                Response(200, None, "success", att1.status, action))

(***************************************************************************)
(* The requests the model sends.                                           *)
(***************************************************************************)
\* identified_register_number: Form(""), or what /identify_student answered
IdentifiedRegisterNumbers == {""} \cup Students
\* the action of a resolution request
Actions == {"approve", "reject", "APPROVE", "hold"}
\* the notes of a resolution request: some text, or none (notes is Optional)
Notes == {"note", None}
\* ids a resolution request may name: those of the rows of the tables the
\* reviews are explored on, and one past them
Ids == 1..(MaxReviewed + 1)

(***************************************************************************)
(* Actions.                                                                *)
(***************************************************************************)
\* the table has room for what result r leaves in it
Fits(r) == Len(r.attendance_records) <= MaxRecords

\* install what a handler leaves and answers
Install(op, arg, r) ==
    /\ students' = r.students
    /\ attendance_records' = r.attendance_records
    /\ pending_verifications' = r.pending_verifications
    /\ last' = [op |-> op, arg |-> arg, resp |-> r.resp]
    /\ UNCHANGED <<now, env, loop>>

mark_attendance_verified ==
    \E img \in Images, reg \in RegisterNumbers :
        LET r == mark_attendance_verified_result(img, reg)
        IN /\ Fits(r)
           /\ Install("mark_attendance_verified", <<reg, img>>, r)

\* AttendanceService.mark_attendance called with the image of a token
mark_attendance_face_qr ==
    \E img \in Images, qr \in QrImages :
        LET r == mark_attendance_result(img, qr, None)
        IN /\ Fits(r)
           /\ Install("face_qr", <<qr.reg, img>>, r)

\* AttendanceService.mark_attendance called with a register number and no token
mark_attendance_forgot_id ==
    \E img \in Images, reg \in RegisterNumbers :
        LET r == mark_attendance_result(img, NoQr, reg)
        IN /\ Fits(r)
           /\ Install("forgot_id", <<reg, img>>, r)

\* AttendanceService.mark_attendance called with the face alone
mark_attendance_face_only ==
    \E img \in Images :
        LET r == mark_attendance_result(img, NoQr, None)
        IN /\ Fits(r)
           /\ Install("face_only", <<None, img>>, r)

mark_attendance_with_liveness ==
    \E img \in Images, qr \in {NoQr, QrImage(StudentOrder[1])},
       reg \in {None, StudentOrder[1]} :
        LET r == mark_attendance_with_liveness_result(img, qr, reg)
        IN /\ Fits(r)
           /\ Install("mark_attendance_with_liveness", <<qr.reg, img>>, r)

create_pending_verification ==
    \E img \in Images :
        LET r == create_pending_verification_result(img)
        IN /\ Fits(r)
           /\ Install("create_pending_verification", <<None, img>>, r)

identify_student_from_face ==
    \E img \in Probes :
        LET r == identify_student_from_face_result(img)
        IN /\ Fits(r)
           /\ Install("identify_student_from_face", <<None, img>>, r)

create_manual_pending_verification ==
    \E manual \in RegisterNumbers, identified \in IdentifiedRegisterNumbers :
        LET r == create_manual_pending_verification_result(manual, identified)
        IN /\ Fits(r)
           /\ Install("create_manual_pending_verification", <<manual, identified>>, r)

verify_pending ==
    \E id \in Ids, action \in Actions, user \in Users, notes \in Notes :
        LET r == verify_pending_result(id, action, user, notes)
        IN /\ Fits(r)
           /\ Install("verify_pending", id, r)

verify_pending_attendance ==
    \E id \in Ids, action \in Actions, reg \in {None} \cup RegisterNumbers,
       user \in Users :
        LET r == verify_pending_attendance_result(id, action, reg, user)
        IN /\ Fits(r)
           /\ Install("verify_pending_attendance", id, r)

attendance_verify ==
    \E id \in Ids, action \in Actions, user \in Users, notes \in Notes :
        LET r == attendance_verify_result(id, action, notes, user)
        IN /\ Fits(r)
           /\ Install("attendance_verify", id, r)

\* FaceRecognitionService.verify_face(image_data, stored_encoding, threshold)
call_verify_face ==
    \E img \in Probes, reg \in Students, threshold \in Thresholds :
        /\ students[reg].face_encoding
        /\ last' = [op |-> "verify_face", arg |-> <<img, reg, threshold>>,
                    resp |-> verify_face(img, reg, threshold)]
        /\ UNCHANGED <<students, attendance_records, pending_verifications, now, env, loop>>

\* FaceRecognitionService.find_matching_student(image_data, db)
call_find_matching_student ==
    \E img \in Probes :
        /\ last' = [op |-> "find_matching_student", arg |-> <<None, img>>,
                    resp |-> find_matching_student(img)]
        /\ UNCHANGED <<students, attendance_records, pending_verifications, now, env, loop>>

\* FaceRecognitionService.check_liveness(image_data)
call_check_liveness ==
    \E frame \in Frames :
        /\ last' = [op |-> "check_liveness", arg |-> frame,
                    resp |-> face_service_check_liveness(frame)]
        /\ UNCHANGED <<students, attendance_records, pending_verifications, now, env, loop>>

\* the clock moves on
Tick ==
    /\ \/ /\ now.time + 1 \in Times
          /\ now' = [now EXCEPT !.time = @ + 1]
       \/ /\ now.day < MaxDay
          /\ now' = [day |-> now.day + 1, time |-> cutoff_time]
    /\ last' = [op |-> "Tick", arg |-> None, resp |-> None]
    /\ UNCHANGED <<students, attendance_records, pending_verifications, env, loop>>

(***************************************************************************)
(* The token decoder in detail.                                            *)
(*                                                                         *)
(* A text read from a card is kept as its runs of characters of one class: *)
(* "d" digits, "w" letters (upper case), "s" a separator inside the text   *)
(* (a space or a hyphen) and "@"; two neighbouring runs differ in class.   *)
(* A text never starts or ends with white space, so str.strip() leaves it  *)
(* as it is.  A text is the JSON object generate_student_qr prints, or     *)
(* plain; lead0 tells whether a plain text starts with the digit 0.        *)
(***************************************************************************)
\* the longest text, in runs
MaxRuns == 3

Run(c, n) == [c |-> c, n |-> n]
\* the classes \w of a regular expression covers
WordClasses == {"d", "w"}
\* digit runs shorter than, at, inside (odd one out: 9 is the band's end) and
\* beyond the lengths the code accepts; letters; one separator; one "@"
RunChoices ==
    {Run("d", n) : n \in {4, 7, 9, 10}}
    \cup {Run("w", 2), Run("s", 1), Run("@", 1)}

RunSeqs ==
    {rs \in UNION {[1..k -> RunChoices] : k \in 1..MaxRuns} :
        \A i \in 1..(Len(rs) - 1) : rs[i].c # rs[i + 1].c}

PlainText(runs, lead0) ==
    [form |-> "plain", register_number |-> None, runs |-> runs, lead0 |-> lead0]

\* json.dumps(qr_data, separators=(',', ':')) of generate_student_qr:
\* {"register_number":"<7 digits>","name":...}, the register number being
\* the first run of digits, between quotes
ObjectText(r) ==
    [form |-> "object", register_number |-> r,
     runs |-> <<Run("s", 2), Run("w", 8), Run("s", 3), Run("d", 7), Run("s", 2), Run("w", 4)>>,
     lead0 |-> FALSE]

\* str.isdigit()
isdigit(runs) == Len(runs) = 1 /\ runs[1].c = "d"

RECURSIVE len(_)
\* len(str)
len(runs) == IF runs = <<>> THEN 0 ELSE Head(runs).n + len(Tail(runs))

Texts ==
    {PlainText(rs, FALSE) : rs \in RunSeqs}
    \cup {PlainText(rs, TRUE) : rs \in {x \in RunSeqs : isdigit(x)}}
    \cup {ObjectText(r) : r \in RegisterNumbers}

(***************************************************************************)
(* A Python string taken from a text: the whole text, or a part of it that *)
(* starts off characters into run at; NoStr stands for None.               *)
(***************************************************************************)
NoStr == [kind |-> "none", at |-> 0, off |-> 0, runs |-> <<>>]
Whole(text) == [kind |-> "whole", at |-> 0, off |-> 0, runs |-> text.runs]
Part(at, off, runs) == [kind |-> "part", at |-> at, off |-> off, runs |-> runs]
Digits(at, off, n) == Part(at, off, <<Run("d", n)>>)

\* the leftmost of the places a pattern matches at, 0 if there is none
Leftmost(S) == IF S = {} THEN 0 ELSE CHOOSE i \in S : \A j \in S : i <= j

\* re.match(r'(\d{7})@', s): seven digits at the start, then "@"
email_match(runs) ==
    IF Len(runs) >= 2 /\ runs[1] = Run("d", 7) /\ runs[2].c = "@"
    THEN Digits(1, 0, 7)
    ELSE NoStr

\* re.search(r'\b(\d{7})\b', s): the first run of exactly seven digits that
\* no letter touches
seven_digit(runs) ==
    LET i == Leftmost({k \in 1..Len(runs) :
                 /\ runs[k] = Run("d", 7)
                 /\ k > 1 => runs[k - 1].c \notin WordClasses
                 /\ k < Len(runs) => runs[k + 1].c \notin WordClasses})
    IN IF i = 0 THEN NoStr ELSE Digits(i, 0, 7)

\* re.search(r'(\d{7})@[\w\.]+', text): the seven digits before the first
\* "@" that seven or more digits precede and a letter or digit follows
ocr_email_match(runs) ==
    LET i == Leftmost({k \in 1..(Len(runs) - 2) :
                 /\ runs[k].c = "d" /\ runs[k].n >= 7
                 /\ runs[k + 1].c = "@"
                 /\ runs[k + 2].c \in WordClasses})
    IN IF i = 0 THEN NoStr ELSE Digits(i, runs[i].n - 7, 7)

\* re.search(r'\d{7}', s): the first seven digits of the first run of seven
\* or more
search_7(runs) ==
    LET i == Leftmost({k \in 1..Len(runs) : runs[k].c = "d" /\ runs[k].n >= 7})
    IN IF i = 0 THEN NoStr ELSE Digits(i, 0, 7)

\* re.search(r'\d{5,9}', s): the first nine digits at most of the first run
\* of five or more
search_5_9(runs) ==
    LET i == Leftmost({k \in 1..Len(runs) : runs[k].c = "d" /\ runs[k].n >= 5})
    IN IF i = 0 THEN NoStr
       ELSE Digits(i, 0, IF runs[i].n > 9 THEN 9 ELSE runs[i].n)

\* re.search(r'\d{2}[A-Z]{2,4}\d{3}', s): two digits, two to four letters,
\* three digits
search_academic(runs) ==
    LET i == Leftmost({k \in 1..(Len(runs) - 2) :
                 /\ runs[k].c = "d" /\ runs[k].n >= 2
                 /\ runs[k + 1].c = "w" /\ runs[k + 1].n \in 2..4
                 /\ runs[k + 2].c = "d" /\ runs[k + 2].n >= 3})
    IN IF i = 0 THEN NoStr
       ELSE Part(i, runs[i].n - 2, <<Run("d", 2), runs[i + 1], Run("d", 3)>>)

(***************************************************************************)
(* Python values the decoder returns: None, a dict (of the JSON object,    *)
(* with its register_number, or built by the decoder, with data and type)  *)
(* or the int json.loads makes of a text of digits.                        *)
(***************************************************************************)
PyNone == [py |-> "NoneType", register_number |-> None, data |-> NoStr, type |-> None]
PyObject(r) == [py |-> "dict", register_number |-> r, data |-> NoStr, type |-> "student_id"]
PyData(data, type) == [py |-> "dict", register_number |-> None, data |-> data, type |-> type]
PyInt(text) == [py |-> "int", register_number |-> None, data |-> Whole(text), type |-> None]

\* json.loads(text): the dict of a JSON object, the int of a text of digits
\* that does not start with 0, JSONDecodeError for any other text
json_loads(text) ==
    IF text.form = "object"
    THEN [raises |-> FALSE, value |-> PyObject(text.register_number)]
    ELSE IF isdigit(text.runs) /\ ~text.lead0
         THEN [raises |-> FALSE, value |-> PyInt(text)]
         ELSE [raises |-> TRUE, value |-> PyNone]

\* what an attempt that read a text does: return a value, or go on
Return(value) == [returns |-> TRUE, value |-> value]
Continue == [returns |-> FALSE, value |-> PyNone]

\* the first loop, on a text cv2.QRCodeDetector read: qr_data.get of an int
\* raises AttributeError, which the except Exception of the loop turns into
\* continue
opencv_text(text) ==
    LET j == json_loads(text)
    IN IF ~j.raises
       THEN IF j.value.py = "dict" THEN Return(j.value) ELSE Continue
       ELSE IF isdigit(text.runs) /\ len(text.runs) = 7
            THEN Return(PyData(Whole(text), "register_number"))
            ELSE IF isdigit(text.runs) /\ len(text.runs) \in 5..9
                 THEN Return(PyData(Whole(text), "register_number"))
                 ELSE Return(PyData(Whole(text), "plain_text"))

\* the checks the second and the third loop make on a text pyzbar read that
\* is no JSON; a text with "@" that the e-mail pattern does not match falls
\* through to the other checks
barcode_text(text) ==
    IF email_match(text.runs) # NoStr
    THEN Return(PyData(email_match(text.runs), "register_number"))
    ELSE IF isdigit(text.runs) /\ len(text.runs) = 7
         THEN Return(PyData(Whole(text), "register_number"))
         ELSE IF isdigit(text.runs) /\ len(text.runs) \in 5..9
              THEN Return(PyData(Whole(text), "register_number"))
              ELSE IF seven_digit(text.runs) # NoStr
                   THEN Return(PyData(seven_digit(text.runs), "register_number"))
                   ELSE Return(PyData(Whole(text), "plain_text"))

\* the second loop, on a text pyzbar read
pyzbar_text(text) ==
    LET j == json_loads(text)
    IN IF ~j.raises
       THEN IF j.value.py = "dict" THEN Return(j.value) ELSE Continue
       ELSE barcode_text(text)

\* the third loop, on a text cv2.QRCodeDetector read from the resized image
scale_opencv_text(text) ==
    LET j == json_loads(text)
    IN IF ~j.raises
       THEN Return(j.value)
       ELSE Return(PyData(Whole(text), "plain_text"))

\* the third loop, on a text pyzbar read from the resized image
scale_pyzbar_text(text) == barcode_text(text)

\* the fourth loop, on a text pyzbar read from the rotated image
rotation_text(text) ==
    IF isdigit(text.runs) /\ len(text.runs) = 7
    THEN Return(PyData(Whole(text), "register_number"))
    ELSE IF seven_digit(text.runs) # NoStr
         THEN Return(PyData(seven_digit(text.runs), "register_number"))
         ELSE Continue

\* the last stage, on a text pytesseract read
ocr_text(text) ==
    IF ocr_email_match(text.runs) # NoStr
    THEN Return(PyData(ocr_email_match(text.runs), "register_number"))
    ELSE IF seven_digit(text.runs) # NoStr
         THEN Return(PyData(seven_digit(text.runs), "register_number"))
         ELSE Continue

(***************************************************************************)
(* The attempts of decode_qr_from_image, in the order the code makes them. *)
(***************************************************************************)
processed_images ==
    <<"color", "gray", "sharpened", "equalized", "sharpened_equalized", "blurred",
      "otsu", "sharpened_otsu", "adaptive", "sharpened_adaptive", "binary",
      "closed", "bilateral", "canny",
      "bottom", "bottom_equalized", "bottom_otsu", "bottom_adaptive",
      "inverted_otsu">>
scales == <<"0.5", "0.75", "1.0", "1.25", "1.5", "2.0", "2.5">>
angles == <<"-15", "-10", "-5", "5", "10", "15", "-20", "20">>
ocr_images == <<"color", "gray", "sharpened">>

Attempt(stage, lib, image) == [stage |-> stage, lib |-> lib, image |-> image]

RECURSIVE Flatten(_)
Flatten(ss) == IF ss = <<>> THEN <<>> ELSE Head(ss) \o Flatten(Tail(ss))

attempts ==
    [i \in 1..Len(processed_images) |-> Attempt("processed", "opencv", processed_images[i])]
    \o [i \in 1..Len(processed_images) |-> Attempt("processed", "pyzbar", processed_images[i])]
    \o Flatten([i \in 1..Len(scales) |->
                   <<Attempt("scale", "opencv", scales[i]),
                     Attempt("scale", "pyzbar", scales[i])>>])
    \o [i \in 1..Len(angles) |-> Attempt("rotation", "pyzbar", angles[i])]
    \o [i \in 1..Len(ocr_images) |-> Attempt("ocr", "pytesseract", ocr_images[i])]

\* what the attempt does with the text it read
attempt_text(a, text) ==
    CASE a.stage = "processed" /\ a.lib = "opencv" -> opencv_text(text)
      [] a.stage = "processed" /\ a.lib = "pyzbar" -> pyzbar_text(text)
      [] a.stage = "scale" /\ a.lib = "opencv" -> scale_opencv_text(text)
      [] a.stage = "scale" /\ a.lib = "pyzbar" -> scale_pyzbar_text(text)
      [] a.stage = "rotation" -> rotation_text(text)
      [] a.stage = "ocr" -> ocr_text(text)

(***************************************************************************)
(* A photographed card, as far as the decoder can tell cards apart: the    *)
(* text on it and the attempts whose library reads that text from their    *)
(* image of the card.                                                      *)
(***************************************************************************)
Scan(text, readers) == [text |-> text, readers |-> readers]

RECURSIVE run_attempts(_, _)
\* the loops of decode_qr_from_image from attempt i on: the number of
\* attempts made, those that read the text, and the value returned
run_attempts(scan, i) ==
    IF i > Len(attempts)
    THEN [made |-> Len(attempts), read |-> {}, value |-> PyNone]
    ELSE IF attempts[i] \notin scan.readers
         THEN run_attempts(scan, i + 1)
         ELSE LET o == attempt_text(attempts[i], scan.text)
              IN IF o.returns
                 THEN [made |-> i, read |-> {i}, value |-> o.value]
                 ELSE LET rest == run_attempts(scan, i + 1)
                      IN [rest EXCEPT !.read = @ \cup {i}]

\* QRBarcodeService.decode_qr_from_image(image_data), attempt by attempt
decode_qr_from_image_attempts(scan) == run_attempts(scan, 1)

\* str(qr_result['register_number']) of the JSON object: the first run of
\* digits of its text
ObjectRegister == Digits(4, 0, 7)

\* detect_face_and_id, from "if qr_result:" on: the register number it
\* reports for what the decoder returned (NoStr: id_detected stays False).
\* An int is neither dict nor str; the decoder returns no str.
face_and_id_register(qr_result) ==
    IF qr_result.py # "dict"
    THEN NoStr
    ELSE IF qr_result.register_number # None
         THEN ObjectRegister
         ELSE LET data == qr_result.data
              IN IF isdigit(data.runs) /\ len(data.runs) = 7
                 THEN data
                 ELSE IF isdigit(data.runs) /\ len(data.runs) \in 5..9
                      THEN data
                      ELSE IF search_7(data.runs) # NoStr
                           THEN search_7(data.runs)
                           ELSE IF search_5_9(data.runs) # NoStr
                                THEN search_5_9(data.runs)
                                ELSE search_academic(data.runs)

\* detect_barcode_from_id_card, from "Extract register number from decoded
\* data" on: the register number it reports for what the decoder returned.
\* A dict the decoder built always has data, which is taken whatever it is;
\* the search through the other fields is for dicts with neither key.
barcode_register(decoded_data) ==
    CASE decoded_data.py = "int" ->
            IF len(decoded_data.data.runs) = 7
            THEN decoded_data.data
            ELSE IF len(decoded_data.data.runs) \in 5..9
                 THEN decoded_data.data
                 ELSE NoStr
      [] decoded_data.py = "dict" ->
            IF decoded_data.register_number # None
            THEN ObjectRegister
            ELSE decoded_data.data
      [] OTHER -> NoStr

\* POST /detect_face_and_id: one image, looked at for a face and for a card
detect_face_and_id_result(img, scan) ==
    LET qr_result == decode_qr_from_image_attempts(scan).value
        register_number == face_and_id_register(qr_result)
    IN [face_detected |-> img.face,
        id_detected |-> register_number # NoStr,
        register_number |-> register_number,
        liveness |-> IF img.face THEN IF check_liveness(img) THEN "True" ELSE "False"
                     ELSE None]

\* POST /detect_barcode: success and the register number read from the card
\* (the lookup of the student only words the message)
detect_barcode_from_id_card_result(scan) ==
    LET decoded_data == decode_qr_from_image_attempts(scan).value
        register_number == IF decoded_data.py = "NoneType"
                           THEN NoStr
                           ELSE barcode_register(decoded_data)
    IN [success |-> register_number # NoStr, register_number |-> register_number]

(***************************************************************************)
(* The cards the decoder is called with.                                   *)
(***************************************************************************)
\* one attempt of each kind, and the first attempt on an enhanced image and
\* on the bottom region
KeyAttempts ==
    {Attempt("processed", lib, image) :
        lib \in {"opencv", "pyzbar"}, image \in {"color", "sharpened", "bottom"}}
    \cup {Attempt("scale", "opencv", "1.0"), Attempt("scale", "pyzbar", "1.0"),
          Attempt("rotation", "pyzbar", "5"), Attempt("ocr", "pytesseract", "color")}

\* the kinds of attempt: one place each where the code turns a text into a value
SiteAttempts ==
    {Attempt("processed", "opencv", "color"), Attempt("processed", "pyzbar", "color"),
     Attempt("scale", "opencv", "1.0"), Attempt("scale", "pyzbar", "1.0"),
     Attempt("rotation", "pyzbar", "5"), Attempt("ocr", "pytesseract", "color")}

\* the texts printed on the cards: the JSON object of the first student, a
\* register number alone (starting with 0 or not), nine digits, letters, a
\* register number after letters, and the e-mail address of a student
ScanTexts ==
    {ObjectText(StudentOrder[1]),
     PlainText(<<Run("d", 7)>>, FALSE), PlainText(<<Run("d", 7)>>, TRUE),
     PlainText(<<Run("d", 9)>>, FALSE), PlainText(<<Run("w", 2)>>, FALSE),
     PlainText(<<Run("w", 2), Run("s", 1), Run("d", 7)>>, FALSE),
     PlainText(<<Run("d", 7), Run("@", 1), Run("w", 2)>>, FALSE)}

AllAttempts == {attempts[i] : i \in 1..Len(attempts)}

\* which attempts read the card: none, any one, or two of the key attempts
Readers ==
    {{}} \cup {{a} : a \in AllAttempts}
    \cup {{a, b} : a \in KeyAttempts, b \in KeyAttempts}

Scans == {Scan(text, readers) : text \in ScanTexts, readers \in Readers}
KeyScans == {Scan(text, {a}) : text \in ScanTexts, a \in SiteAttempts}

\* QRBarcodeService.decode_qr_from_image(image_data)
call_decode_qr_from_image ==
    \E scan \in Scans :
        /\ last' = [op |-> "decode_qr_from_image", arg |-> scan,
                    resp |-> decode_qr_from_image_attempts(scan)]
        /\ UNCHANGED <<students, attendance_records, pending_verifications, now, env, loop>>

detect_face_and_id ==
    \E img \in Images, scan \in KeyScans :
        /\ last' = [op |-> "detect_face_and_id", arg |-> <<img, scan>>,
                    resp |-> detect_face_and_id_result(img, scan)]
        /\ UNCHANGED <<students, attendance_records, pending_verifications, now, env, loop>>

detect_barcode_from_id_card ==
    \E scan \in KeyScans :
        /\ last' = [op |-> "detect_barcode", arg |-> scan,
                    resp |-> detect_barcode_from_id_card_result(scan)]
        /\ UNCHANGED <<students, attendance_records, pending_verifications, now, env, loop>>

\* what the decoder and the two endpoints make of a text, read at one
\* attempt of each kind
extract_register_number ==
    \E a \in SiteAttempts, text \in Texts :
        LET o == attempt_text(a, text)
        IN /\ last' = [op |-> "extract", arg |-> Scan(text, {a}),
                       resp |-> [decoded |-> o,
                                 face_and_id |-> IF o.returns
                                                 THEN face_and_id_register(o.value)
                                                 ELSE NoStr,
                                 barcode |-> IF o.returns
                                             THEN barcode_register(o.value)
                                             ELSE NoStr]]
           /\ UNCHANGED <<students, attendance_records, pending_verifications, now, env, loop>>

(***************************************************************************)
(* Requests in flight.  Every route of main.py is an `async def`, and      *)
(* uvicorn.run serves the application from one process with one event      *)
(* loop: a handler runs on the loop from one await to the next, and its     *)
(* queries, the encoding of the face and its commits are synchronous calls  *)
(* made on the loop itself.  The two handlers that write an embedding       *)
(* await once, `await face_image.read()`, before they read the student.     *)
(* A task is a request in flight: its handler, where it stands, what it     *)
(* was called with, whether the student row it read carried an embedding,   *)
(* and the verification it arrived at.                                      *)
(***************************************************************************)
Tasks == 1..MaxTasks

NoTask ==
    [op |-> "none", pc |-> "idle", reg |-> None,
     img |-> Image(FALSE, TRUE, LowSim, LowSim), seen |-> FALSE, v |-> <<FALSE, 0, TRUE>>]

Task(op, pc, reg, img) == [NoTask EXCEPT !.op = op, !.pc = pc, !.reg = reg, !.img = img]

\* the images enrolment is explored with: the first student, and no face
EnrolmentImages ==
    {Image(TRUE, TRUE, HighSim, LowSim), Image(FALSE, TRUE, LowSim, LowSim)}

\* handlers that would run on threads of a pool, each whenever it likes
thread_pool_free(t) == TRUE

\* the event loop runs one task at a time, from an await to the next: task t
\* may run if the loop is idle or is running t
event_loop_free(t) == loop.running \in {0, t}

\* task t takes its next step: it stands at pc and the loop lets it run
Runs(t, op, pc) ==
    /\ loop.tasks[t].op = op
    /\ loop.tasks[t].pc = pc
    /\ event_loop_free(t)

\* task t goes on to pc, the loop stays with it
Goes(t, task) == loop' = [running |-> t, tasks |-> [loop.tasks EXCEPT ![t] = task]]

\* task t returns: the loop is free again
Returns(t) == loop' = [running |-> 0, tasks |-> [loop.tasks EXCEPT ![t] = NoTask]]

\* mark_attendance_verified from its duplicate check on, for the verification
\* v = <<face_match, face_confidence, is_live>> it arrived at
mark_attendance_verified_record(reg, v) ==
    LET late == is_late(now.time, cutoff_time)
        rec == AttendanceRecord(reg, IF late THEN "Late" ELSE "Present", "face_id",
                                v[2], TRUE, "verified")
    IN
    IF existing_attendance(reg, now.day) # {}
    THEN NoWrite(Response(200, None, "error", None, "duplicate"))
    ELSE IF v[1]
    THEN Result(students,
                Append(attendance_records,
                       IF late THEN send_late_notification(rec) ELSE rec),
                pending_verifications,
                Response(200, IF late THEN "D" ELSE "A", "success", rec.status,
                         "recorded"))
    ELSE NoWrite(Response(200, "B", "error", None, "retry"))

\* POST /mark_attendance_verified arrives and runs to `await face_image.read()`
request_mark_attendance_verified ==
    \E t \in Tasks, img \in EnrolmentImages, reg \in RegisterNumbers :
        /\ Runs(t, "none", "idle")
        /\ loop' = [loop EXCEPT !.tasks[t] =
                        Task("mark_attendance_verified", "await_read", reg, img)]
        /\ UNCHANGED <<students, attendance_records, pending_verifications, now, env,
                       last>>

\* POST /students/{register_number}/face-encoding arrives: 403 for a role that
\* may not store embeddings, else it runs to `await face_image.read()`
request_store_face_encoding ==
    \E t \in Tasks, img \in EnrolmentImages, reg \in RegisterNumbers, user \in Users :
        /\ Runs(t, "none", "idle")
        /\ IF Role(user) \notin {"admin", "department"}
           THEN /\ last' = [op |-> "store_face_encoding", arg |-> <<reg, img>>,
                            resp |-> Response(403, None, "error", None, "forbidden")]
                /\ UNCHANGED loop
           ELSE /\ loop' = [loop EXCEPT !.tasks[t] =
                                Task("store_face_encoding", "await_read", reg, img)]
                /\ UNCHANGED last
        /\ UNCHANGED <<students, attendance_records, pending_verifications, now, env>>

\* the image has been read: the loop takes the handler up again
resume ==
    \E t \in Tasks, op \in {"mark_attendance_verified", "store_face_encoding"} :
        /\ Runs(t, op, "await_read")
        /\ Goes(t, [loop.tasks[t] EXCEPT !.pc = "query"])
        /\ UNCHANGED <<students, attendance_records, pending_verifications, now, env,
                       last>>

\* mark_attendance_verified reads the active student of the register number
query_active_student ==
    \E t \in Tasks :
        LET task == loop.tasks[t]
            found == task.reg \in Students /\ students[task.reg].is_active
        IN /\ Runs(t, "mark_attendance_verified", "query")
           /\ IF ~found
              THEN /\ Returns(t)
                   /\ last' = [op |-> "mark_attendance_verified",
                               arg |-> <<task.reg, task.img>>,
                               resp |-> Response(200, "B", "error", None, "retry")]
              ELSE /\ Goes(t, [task EXCEPT
                                  !.seen = students[task.reg].face_encoding,
                                  !.pc = IF students[task.reg].face_encoding
                                         THEN "verify" ELSE "encode"])
                   /\ UNCHANGED last
           /\ UNCHANGED <<students, attendance_records, pending_verifications, now, env>>

\* FaceRecognitionService.store_face_encoding reads the student, active or not
query_student ==
    \E t \in Tasks :
        LET task == loop.tasks[t]
        IN /\ Runs(t, "store_face_encoding", "query")
           /\ IF task.reg \notin Students
              THEN /\ Returns(t)
                   /\ last' = [op |-> "store_face_encoding",
                               arg |-> <<task.reg, task.img>>,
                               resp |-> Response(400, None, "error", None, "failed")]
              ELSE /\ Goes(t, [task EXCEPT
                                  !.seen = students[task.reg].face_encoding,
                                  !.pc = "encode"])
                   /\ UNCHANGED last
           /\ UNCHANGED <<students, attendance_records, pending_verifications, now, env>>

\* mark_attendance_verified compares the image with the embedding it read
verify_stored_embedding ==
    \E t \in Tasks :
        LET task == loop.tasks[t]
        IN /\ Runs(t, "mark_attendance_verified", "verify")
           /\ Goes(t, [task EXCEPT !.v = verify_face_with_liveness(task.img, task.reg),
                                   !.pc = "record"])
           /\ UNCHANGED <<students, attendance_records, pending_verifications, now, env,
                          last>>

\* either handler encodes the face of its image: without a face
\* mark_attendance_verified goes on unmatched and store_face_encoding fails
encode ==
    \E t \in Tasks, op \in {"mark_attendance_verified", "store_face_encoding"} :
        LET task == loop.tasks[t]
        IN /\ Runs(t, op, "encode")
           /\ IF encode_face(task.img)
              THEN /\ Goes(t, [task EXCEPT !.pc = "write"])
                   /\ UNCHANGED last
              ELSE IF op = "mark_attendance_verified"
              THEN /\ Goes(t, [task EXCEPT !.v = <<FALSE, 0, TRUE>>, !.pc = "record"])
                   /\ UNCHANGED last
              ELSE /\ Returns(t)
                   /\ last' = [op |-> op, arg |-> <<task.reg, task.img>>,
                               resp |-> Response(400, None, "error", None, "failed")]
           /\ UNCHANGED <<students, attendance_records, pending_verifications, now, env>>

\* student.face_encoding = ...; db.commit(): mark_attendance_verified accepts
\* the face it has just stored, store_face_encoding answers
write_embedding ==
    \E t \in Tasks, op \in {"mark_attendance_verified", "store_face_encoding"} :
        LET task == loop.tasks[t]
        IN /\ Runs(t, op, "write")
           /\ students' = [students EXCEPT ![task.reg].face_encoding = TRUE]
           /\ IF op = "mark_attendance_verified"
              THEN /\ Goes(t, [task EXCEPT !.v = <<TRUE, FIRST_SIGHT_CONFIDENCE, TRUE>>,
                                           !.pc = "record"])
                   /\ UNCHANGED last
              ELSE /\ Returns(t)
                   /\ last' = [op |-> op, arg |-> <<task.reg, task.img>>,
                               resp |-> Response(200, None, "success", None, "stored")]
           /\ UNCHANGED <<attendance_records, pending_verifications, now, env>>

\* mark_attendance_verified checks for a duplicate, records and answers
record_attendance ==
    \E t \in Tasks :
        LET task == loop.tasks[t]
            r == mark_attendance_verified_record(task.reg, task.v)
        IN /\ Runs(t, "mark_attendance_verified", "record")
           /\ Fits(r)
           /\ Returns(t)
           /\ attendance_records' = r.attendance_records
           /\ last' = [op |-> "mark_attendance_verified", arg |-> <<task.reg, task.img>>,
                       resp |-> r.resp]
           /\ UNCHANGED <<students, pending_verifications, now, env>>

\* the students table when the service starts: both students active and
\* enrolled, or the first active and not yet enrolled and the second enrolled
\* and deactivated
InitialStudents ==
    {[r \in Students |-> [is_active |-> TRUE, face_encoding |-> TRUE]],
     [r \in Students |-> IF r = StudentOrder[1]
                         THEN [is_active |-> TRUE, face_encoding |-> FALSE]
                         ELSE [is_active |-> FALSE, face_encoding |-> TRUE]]}

\* the settings the services find in the environment when they are constructed:
\* nothing set (the defaults of os.getenv), or the .env file of create_env.py
Environments ==
    {[ATTENDANCE_CUTOFF_TIME |-> DEFAULT_ATTENDANCE_CUTOFF_TIME,
      SIAMESE_THRESHOLD |-> t] : t \in {SIAMESE_THRESHOLD, ENV_FILE_SIAMESE_THRESHOLD}}

Init ==
    /\ students \in InitialStudents
    /\ attendance_records = <<>>
    /\ pending_verifications = <<>>
    /\ now = [day |-> 1, time |-> cutoff_time]
    /\ env \in Environments
    /\ last = [op |-> "none", arg |-> None, resp |-> None]
    /\ loop = [running |-> 0, tasks |-> [t \in Tasks |-> NoTask]]

\* the captures that present a token, and the clock
TokenNext ==
    \/ mark_attendance_verified
    \/ mark_attendance_face_qr
    \/ mark_attendance_with_liveness
    \/ Tick

\* the captures that present no token, and the clock
PendingNext ==
    \/ mark_attendance_forgot_id
    \/ mark_attendance_face_only
    \/ create_pending_verification
    \/ create_manual_pending_verification
    \/ Tick

\* the resolution handlers, on what the captures leave in a table that holds
\* fewer than MaxReviewed rows, and the clock
ReviewNext ==
    \/ Len(attendance_records) < MaxReviewed /\ mark_attendance_verified
    \/ Len(attendance_records) < MaxReviewed /\ mark_attendance_forgot_id
    \/ Len(attendance_records) < MaxReviewed /\ create_pending_verification
    \/ Len(attendance_records) < MaxReviewed /\ create_manual_pending_verification
    \/ verify_pending
    \/ verify_pending_attendance
    \/ attendance_verify
    \/ Tick

\* the face services and the endpoint that identifies a face, called on the
\* probes
FaceNext ==
    \/ call_verify_face
    \/ call_find_matching_student
    \/ call_check_liveness
    \/ identify_student_from_face

\* the token decoder and the endpoints that only read a card, called on the
\* scans
DecoderNext ==
    \/ call_decode_qr_from_image
    \/ detect_face_and_id
    \/ detect_barcode_from_id_card

\* the places that turn a text into a register number, called on the texts
ExtractNext == extract_register_number

\* the requests that store an embedding, step by step
EnrolNext ==
    \/ request_mark_attendance_verified
    \/ request_store_face_encoding
    \/ resume
    \/ query_active_student
    \/ query_student
    \/ verify_stored_embedding
    \/ encode
    \/ write_embedding
    \/ record_attendance

Next == TokenNext \/ PendingNext \/ ReviewNext \/ FaceNext \/ DecoderNext \/ ExtractNext \/ EnrolNext

Spec == Init /\ [][Next]_vars
TokenSpec == Init /\ [][TokenNext]_vars
PendingSpec == Init /\ [][PendingNext]_vars
FaceSpec == Init /\ [][FaceNext]_vars
\* the resolution handlers read no setting but the cutoff: the reviews are
\* explored with the services constructed from the defaults
ReviewInit == Init /\ env.SIAMESE_THRESHOLD = SIAMESE_THRESHOLD
ReviewSpec == ReviewInit /\ [][ReviewNext]_vars
\* the environment with ATTENDANCE_CUTOFF_TIME set: to the default 08:45, or
\* to a time TimeSpan minutes later
ConfiguredEnvironments ==
    {[ATTENDANCE_CUTOFF_TIME |-> t, SIAMESE_THRESHOLD |-> SIAMESE_THRESHOLD] :
        t \in {DEFAULT_ATTENDANCE_CUTOFF_TIME, DEFAULT_ATTENDANCE_CUTOFF_TIME + TimeSpan}}

\* the service started with a configured cutoff, every student enrolled
CutoffInit ==
    /\ students = [r \in Students |-> [is_active |-> TRUE, face_encoding |-> TRUE]]
    /\ attendance_records = <<>>
    /\ pending_verifications = <<>>
    /\ now = [day |-> 1, time |-> cutoff_time]
    /\ env \in ConfiguredEnvironments
    /\ last = [op |-> "none", arg |-> None, resp |-> None]
    /\ loop = [running |-> 0, tasks |-> [t \in Tasks |-> NoTask]]
CutoffSpec == CutoffInit /\ [][ReviewNext]_vars
\* the decoder reads no table and no setting: it is explored from one
\* initial state
ScanInit == ReviewInit /\ \A r \in Students : students[r].face_encoding
DecoderSpec == ScanInit /\ [][DecoderNext]_vars
ExtractSpec == ScanInit /\ [][ExtractNext]_vars
EnrolSpec == ReviewInit /\ [][EnrolNext]_vars
(***************************************************************************)
(* What the properties below speak of.  A property about a handler H is    *)
(* stated on H_result in every reachable state: whatever the state and     *)
(* the request, if the request is one the property is about, the result    *)
(* is what the property says.                                              *)
(***************************************************************************)
\* the ids of the rows of table att for person reg on day day
records_of(att, reg, day) ==
    {i \in 1..Len(att) :
        att[i].student_register_number = reg /\ att[i].date = day}

\* student reg is active and has a stored embedding
enrolled(reg) == students[reg].is_active /\ students[reg].face_encoding

\* result r wrote nothing to the two tables
Untouched(r) ==
    /\ r.attendance_records = attendance_records
    /\ r.pending_verifications = pending_verifications

\* result r added one row to attendance_records and changed no other
AddedRecord(r) ==
    /\ Len(r.attendance_records) = Len(attendance_records) + 1
    /\ SubSeq(r.attendance_records, 1, Len(attendance_records)) = attendance_records

\* the row result r added
NewRecord(r) == r.attendance_records[Len(r.attendance_records)]

\* result r added one row to attendance_records, for reg today with this status
\* and verification_status
Recorded(r, reg, status, vstatus) ==
    /\ AddedRecord(r)
    /\ NewRecord(r).student_register_number = reg
    /\ NewRecord(r).date = now.day
    /\ NewRecord(r).status = status
    /\ NewRecord(r).verification_status = vstatus

\* result r added one pending row to pending_verifications, referencing the
\* attendance record r added and reg
AddedPending(r, reg) ==
    /\ Len(r.pending_verifications) = Len(pending_verifications) + 1
    /\ SubSeq(r.pending_verifications, 1, Len(pending_verifications))
           = pending_verifications
    /\ LET pv == r.pending_verifications[Len(r.pending_verifications)]
       IN /\ pv.status = "pending"
          /\ pv.attendance_record_id = Len(r.attendance_records)
          /\ pv.student_register_number = reg

\* result r refused the request as a duplicate and wrote nothing
DuplicateRejected(r) ==
    /\ r.resp.status = "error"
    /\ r.resp.message = "duplicate"
    /\ Untouched(r)

\* a token+face capture of reg: reg is active and enrolled, img is a live face
\* that matches reg's stored embedding, and reg has no record today
TokenFaceMatch(img, reg) ==
    /\ enrolled(reg)
    /\ img.face /\ img.live
    /\ img.sim[reg] >= env.SIAMESE_THRESHOLD
    /\ existing_attendance(reg, now.day) = {}

\* the same, with a live face that does not match reg's stored embedding
TokenFaceMismatch(img, reg) ==
    /\ enrolled(reg)
    /\ img.face /\ img.live
    /\ img.sim[reg] < env.SIAMESE_THRESHOLD
    /\ existing_attendance(reg, now.day) = {}

\* identification of img over the active enrolled students finds reg: reg has
\* the highest similarity of them, at or above the identification threshold
\* the specification names (0.5)
Identifies(img, reg) ==
    /\ enrolled(reg)
    /\ img.face
    /\ img.sim[reg] >= VERIFY_FACE_DEFAULT_THRESHOLD
    /\ \A r \in Students \ {reg} : enrolled(r) => img.sim[r] < img.sim[reg]

\* no active enrolled student clears that threshold for img
Unidentifiable(img) ==
    \A r \in Students : enrolled(r) => img.sim[r] < VERIFY_FACE_DEFAULT_THRESHOLD

(***************************************************************************)
(* C1.  For every person P and day D, at most one attendance record exists *)
(* for (P, D) in every reachable state.                                    *)
(* The table has no unique constraint on (student_register_number, date),  *)
(* and create_pending_verification and create_manual_pending_verification  *)
(* insert without looking for an existing row: two requests one after the  *)
(* other are enough, no interleaving is needed.                            *)
(***************************************************************************)
C1_AtMostOneRecordPerPersonDay ==
    \A P \in Students, D \in Days :
        Cardinality(records_of(attendance_records, P, D)) <= 1

(***************************************************************************)
(* C2.  Whenever an attendance record exists for (P, today), a further     *)
(* capture for P through any capture operation is rejected as a duplicate, *)
(* creates no attendance record and no pending verification, and leaves    *)
(* the existing rows as they are.  For the operations that are told who    *)
(* the capture is for, P is the active person they are told; for the       *)
(* face-only operations, P is the person the identification finds.         *)
(***************************************************************************)
C2_DuplicateRejected ==
    \A P \in Students :
        (students[P].is_active /\ existing_attendance(P, now.day) # {}) =>
            \A img \in Images :
                /\ DuplicateRejected(mark_attendance_verified_result(img, P))
                /\ DuplicateRejected(mark_attendance_result(img, QrImage(P), None))
                /\ DuplicateRejected(mark_attendance_result(img, NoQr, P))
                /\ find_matching_student(img)[1] = P =>
                       DuplicateRejected(mark_attendance_result(img, NoQr, None))
                /\ Identifies(img, P) =>
                       DuplicateRejected(create_pending_verification_result(img))
                /\ \A identified \in IdentifiedRegisterNumbers :
                       DuplicateRejected(
                           create_manual_pending_verification_result(P, identified))

(***************************************************************************)
(* C3.  Once a pending review has been resolved, any later resolve call on *)
(* the same review, through /verify_pending, /verify_pending_attendance or *)
(* /attendance/verify, fails with an error and leaves the review's status, *)
(* the parent record's status and verification_status, and the recorded    *)
(* reviewers as the first resolution left them.                            *)
(***************************************************************************)
\* pending verification i, or the attendance record it is about, is resolved
Resolved(i) ==
    \/ pending_verifications[i].status \in {"approve", "approved", "reject", "rejected"}
    \/ attendance_records[pending_verifications[i].attendance_record_id]
           .verification_status \in {"verified", "rejected"}

\* result r left the resolution of pending verification i as it was
SameResolution(r, i) ==
    LET a == pending_verifications[i].attendance_record_id
    IN /\ r.pending_verifications[i].status = pending_verifications[i].status
       /\ r.pending_verifications[i].reviewed_by = pending_verifications[i].reviewed_by
       /\ r.attendance_records[a].status = attendance_records[a].status
       /\ r.attendance_records[a].verification_status
              = attendance_records[a].verification_status
       /\ r.attendance_records[a].verified_by = attendance_records[a].verified_by

\* result r refused to resolve pending verification i again
Refused(r, i) == r.resp.status = "error" /\ SameResolution(r, i)

C3_ResolutionIsTerminal ==
    \A i \in 1..Len(pending_verifications) :
        Resolved(i) =>
            \A action \in Actions, user \in Users, notes \in Notes :
                /\ Refused(verify_pending_result(
                               pending_verifications[i].attendance_record_id,
                               action, user, notes), i)
                /\ Refused(attendance_verify_result(i, action, notes, user), i)
                /\ \A reg \in {None} \cup RegisterNumbers :
                       Refused(verify_pending_attendance_result(i, action, reg, user), i)

(***************************************************************************)
(* C4.  A capture whose token identifies an active enrolled person P,      *)
(* whose face is live and matches P's stored embedding, with no record for *)
(* (P, today) and a capture time at or before the cutoff, creates exactly  *)
(* one attendance record for (P, today), Present and verified, and is      *)
(* answered as case A: mark_attendance_verified labels its answer "A";     *)
(* AttendanceService, which labels no case, answers success with the       *)
(* attendance status Present.                                              *)
(***************************************************************************)
C4_DirectPresent ==
    \A img \in Images, P \in Students :
        TokenFaceMatch(img, P) =>
            LET v == mark_attendance_verified_result(img, P)
                s == mark_attendance_result(img, QrImage(P), None)
            IN /\ now.time <= cutoff_time =>
                    /\ Recorded(v, P, "Present", "verified")
                    /\ Cardinality(records_of(v.attendance_records, P, now.day)) = 1
                    /\ v.pending_verifications = pending_verifications
                    /\ v.resp.case = "A"
                    /\ v.resp.status = "success"
                    /\ v.resp.attendance_status = "Present"
               /\ now.time <= env.ATTENDANCE_CUTOFF_TIME =>
                    /\ Recorded(s, P, "Present", "verified")
                    /\ Cardinality(records_of(s.attendance_records, P, now.day)) = 1
                    /\ s.pending_verifications = pending_verifications
                    /\ s.resp.status = "success"
                    /\ s.resp.attendance_status = "Present"

\* mark_attendance_verified has just answered case A for a live face compared
\* with, and matching, the stored embedding of the person of the token, at or
\* before the cutoff, and the person's record of today is Present and verified
C4_Witness ==
    /\ last.op = "mark_attendance_verified"
    /\ last.resp.case = "A"
    /\ LET P == last.arg[1]
           img == last.arg[2]
           rec == attendance_records[Len(attendance_records)]
       IN /\ img.live /\ img.sim[P] >= env.SIAMESE_THRESHOLD
          /\ rec.student_register_number = P
          /\ rec.date = now.day
          /\ rec.time <= cutoff_time
          /\ rec.face_confidence = img.sim[P]
          /\ rec.status = "Present"
          /\ rec.verification_status = "verified"
          /\ Cardinality(records_of(attendance_records, P, now.day)) = 1

(***************************************************************************)
(* C5.  A token+face capture that meets the conditions of case A except    *)
(* that its time is after the cutoff creates a record Late and verified,   *)
(* and the late notification for it is recorded: its notification_sent is  *)
(* true.                                                                   *)
(***************************************************************************)
C5_LateNotified ==
    \A img \in Images, P \in Students :
        (TokenFaceMatch(img, P) /\ now.time > cutoff_time) =>
            LET v == mark_attendance_verified_result(img, P)
            IN /\ Recorded(v, P, "Late", "verified")
               /\ NewRecord(v).notification_sent

(***************************************************************************)
(* C6.  In every operation that splits Present from Late (the token+face   *)
(* captures of mark_attendance_verified and AttendanceService, and the     *)
(* approvals), a capture time equal to the cutoff gives Present, and the   *)
(* result is Late exactly when the capture time is strictly after the      *)
(* cutoff.  The approval of /verify_pending_attendance/{id} never gets as  *)
(* far as a status: it answers 500 and writes nothing.                     *)
(***************************************************************************)
\* the status the split gives a capture at time t
Split(t, cutoff) == IF t > cutoff THEN "Late" ELSE "Present"

C6_CutoffBoundary ==
    /\ \A img \in Images, P \in Students :
          LET v == mark_attendance_verified_result(img, P)
              s == mark_attendance_result(img, QrImage(P), None)
          IN /\ v.resp.status = "success" =>
                  /\ AddedRecord(v)
                  /\ NewRecord(v).status = Split(now.time, cutoff_time)
                  /\ v.resp.attendance_status = NewRecord(v).status
             /\ s.resp.status = "success" =>
                  /\ AddedRecord(s)
                  /\ NewRecord(s).status = Split(now.time, env.ATTENDANCE_CUTOFF_TIME)
                  /\ s.resp.attendance_status = NewRecord(s).status
    /\ \A id \in 1..Len(attendance_records), user \in Users, notes \in Notes :
          LET r == verify_pending_result(id, "approve", user, notes)
          IN r.resp.status = "success" =>
                 r.attendance_records[id].status
                     = Split(attendance_records[id].time, env.ATTENDANCE_CUTOFF_TIME)
    /\ \A i \in 1..Len(pending_verifications), user \in Users, notes \in Notes :
          LET r == attendance_verify_result(i, "approve", notes, user)
              a == pending_verifications[i].attendance_record_id
          IN r.resp.status = "success" =>
                 r.attendance_records[a].status
                     = Split(attendance_records[a].time, cutoff_time)
    /\ \A i \in 1..Len(pending_verifications), user \in Users,
          reg \in {None} \cup RegisterNumbers :
          LET r == verify_pending_attendance_result(i, "approve", reg, user)
          IN r.resp.code = 500 /\ Untouched(r)

\* /attendance/verify has just approved a capture made exactly at the cutoff,
\* and the record is Present
C6_Witness ==
    /\ last.op = "attendance_verify"
    /\ last.resp.status = "success"
    /\ last.resp.message = "approve"
    /\ LET a == pending_verifications[last.arg].attendance_record_id
       IN /\ attendance_records[a].time = cutoff_time
          /\ attendance_records[a].status = "Present"
          /\ attendance_records[a].verification_status = "verified"

(***************************************************************************)
(* C7.  A capture whose token identifies person P, with no record for P    *)
(* today, and whose live face does not match P's stored embedding creates  *)
(* and changes no attendance record and no pending verification, and the   *)
(* caller is told to retry: mark_attendance_verified answers case B,       *)
(* AttendanceService answers the error that the face verification failed.  *)
(***************************************************************************)
C7_MismatchCreatesNothing ==
    \A img \in Images, P \in Students :
        TokenFaceMismatch(img, P) =>
            LET v == mark_attendance_verified_result(img, P)
                s == mark_attendance_result(img, QrImage(P), None)
            IN /\ Untouched(v)
               /\ v.students = students
               /\ v.resp.case = "B"
               /\ v.resp.status = "error"
               /\ v.resp.message = "retry"
               /\ Untouched(s)
               /\ s.students = students
               /\ s.resp.status = "error"
               /\ s.resp.message = "face_failed"

\* mark_attendance_verified has just answered case B to a live face that does
\* not match the stored embedding of the active person of the token, who has
\* no record today
C7_Witness ==
    /\ last.op = "mark_attendance_verified"
    /\ last.resp.case = "B"
    /\ LET P == last.arg[1]
           img == last.arg[2]
       IN /\ P \in Students
          /\ enrolled(P)
          /\ img.face /\ img.live
          /\ img.sim[P] < env.SIAMESE_THRESHOLD
          /\ existing_attendance(P, now.day) = {}

(***************************************************************************)
(* C8.  A capture with no readable token in which the identification over  *)
(* the active enrolled people finds P with a confidence at or above the    *)
(* identification threshold (0.55 >= 0.5), the capture being live, creates *)
(* an attendance record for P, Pending and pending, and a pending          *)
(* verification that references that record and P.                         *)
(***************************************************************************)
C8_IdentifiedPending ==
    \A img \in Images, P \in Students :
        (Identifies(img, P) /\ img.live) =>
            LET r == create_pending_verification_result(img)
            IN /\ Recorded(r, P, "Pending", "pending")
               /\ AddedPending(r, P)

(***************************************************************************)
(* C9.  A capture with no readable token in which no enrolled candidate    *)
(* clears the identification threshold makes each face-only operation      *)
(* (create_pending_verification, AttendanceService's face-only handler)    *)
(* create an attendance record, Pending, for the unidentified placeholder, *)
(* and a pending verification that references it.                          *)
(***************************************************************************)
C9_UnidentifiedPending ==
    \A img \in Images :
        (img.face /\ img.live /\ Unidentifiable(img)) =>
            /\ LET r == create_pending_verification_result(img)
               IN Recorded(r, UNKNOWN, "Pending", "pending") /\ AddedPending(r, UNKNOWN)
            /\ LET r == mark_attendance_result(img, NoQr, None)
               IN Recorded(r, UNKNOWN, "Pending", "pending") /\ AddedPending(r, UNKNOWN)

(***************************************************************************)
(* C10.  A capture in which an operator supplies the identifier of an      *)
(* existing person (active, with no record today) always produces an       *)
(* outcome Pending with review state pending, whether the face cross-check *)
(* matched, mismatched or identified nobody; it never produces Present or  *)
(* Late.                                                                   *)
(***************************************************************************)
C10_ManualAlwaysPending ==
    \A P \in Students :
        (students[P].is_active /\ existing_attendance(P, now.day) = {}) =>
            /\ \A identified \in IdentifiedRegisterNumbers :
                  Recorded(create_manual_pending_verification_result(P, identified),
                           P, "Pending", "pending")
            /\ \A img \in Images :
                  Recorded(mark_attendance_result(img, NoQr, P), P, "Pending", "pending")

(***************************************************************************)
(* C11.  In mark_attendance_verified, when the face matches the stored     *)
(* embedding of the person of the token but the liveness check fails, the  *)
(* attempt is not rejected: the Present or Late record is created and the  *)
(* answer is case A or D.                                                  *)
(* The handler is written to go on (`if face_match and not is_live`), but  *)
(* SiameseNetworkService.verify_face_with_liveness answers                 *)
(* (False, 0.0, False) as soon as the liveness check fails, without        *)
(* comparing the face: face_match is never true with is_live false.        *)
(***************************************************************************)
\* a token+face capture of reg whose face matches reg's stored embedding and
\* fails the liveness check, reg having no record today
TokenFaceNotLive(img, reg) ==
    /\ enrolled(reg)
    /\ img.face /\ ~img.live
    /\ img.sim[reg] >= env.SIAMESE_THRESHOLD
    /\ existing_attendance(reg, now.day) = {}

C11_LivenessFailureProceeds ==
    \A img \in Images, P \in Students :
        TokenFaceNotLive(img, P) =>
            LET v == mark_attendance_verified_result(img, P)
            IN /\ Recorded(v, P, Split(now.time, cutoff_time), "verified")
               /\ v.resp.status = "success"
               /\ v.resp.case = IF now.time > cutoff_time THEN "D" ELSE "A"

(***************************************************************************)
(* C12.  In every face-only identification path (identify_student_from_    *)
(* face, create_pending_verification, find_matching_student) a capture     *)
(* that fails the liveness check never yields an identified person.        *)
(* identify_student_from_face compares with verify_face_with_liveness and  *)
(* skips a candidate when the capture is not live; the scan of             *)
(* create_pending_verification and find_matching_student compare with      *)
(* verify_face, which makes no liveness check.                             *)
(***************************************************************************)
C12_IdentificationNeedsLiveness ==
    \A img \in Images :
        (img.face /\ ~img.live) =>
            /\ ~identify_student_from_face_result(img).resp.identified
            /\ find_matching_student(img)[1] = None
            /\ NewRecord(create_pending_verification_result(img))
                   .student_register_number = UNKNOWN

(***************************************************************************)
(* C13.  An approval of a pending review, through every approval           *)
(* operation, completes, and the resulting attendance status is Late       *)
(* exactly when the capture time stored when the review was created is     *)
(* strictly after the cutoff, and Present otherwise, whatever the time of  *)
(* the review.                                                             *)
(* /attendance/verify and /verify_pending do so from the time of the       *)
(* parent record; /verify_pending_attendance/{id} reads                    *)
(* pending_verification.timestamp, an attribute PendingVerification does   *)
(* not have (the column is `time`), and answers 500 without a write.       *)
(***************************************************************************)
\* pending verification i and the attendance record it is about are pending
PendingReview(i) ==
    /\ pending_verifications[i].status = "pending"
    /\ attendance_records[pending_verifications[i].attendance_record_id]
           .verification_status = "pending"

\* table att holds a record for reg with this status, captured when pending
\* verification i was
ApprovedAs(att, i, reg, status) ==
    \E k \in 1..Len(att) :
        /\ att[k].student_register_number = reg
        /\ att[k].date = pending_verifications[i].date
        /\ att[k].time = pending_verifications[i].time
        /\ att[k].status = status

C13_ApprovalUsesCaptureTime ==
    \A i \in 1..Len(pending_verifications) :
        PendingReview(i) =>
            LET a == pending_verifications[i].attendance_record_id
                t == pending_verifications[i].time
            IN \A user \in Users, notes \in Notes :
                authorized(user) =>
                    /\ LET r == attendance_verify_result(i, "approve", notes, user)
                       IN /\ r.resp.code = 200
                          /\ r.attendance_records[a].status = Split(t, cutoff_time)
                    /\ LET r == verify_pending_result(a, "approve", user, notes)
                       IN /\ r.resp.code = 200
                          /\ r.attendance_records[a].status
                                 = Split(t, env.ATTENDANCE_CUTOFF_TIME)
                    /\ \A reg \in Students :
                          LET r == verify_pending_attendance_result(i, "approve", reg, user)
                          IN /\ r.resp.code = 200
                             /\ ApprovedAs(r.attendance_records, i, reg,
                                           Split(t, cutoff_time))

(***************************************************************************)
(* C14.  Every approval requires the reviewer to supply the identifier of  *)
(* an existing person and attributes the Present or Late outcome to that   *)
(* identifier, so that no attendance record with status Present or Late is *)
(* ever attributed to the unidentified placeholder "UNKNOWN".              *)
(* /attendance/verify and /verify_pending take no identifier: they set     *)
(* Present or Late on the parent record as it stands, and the parent       *)
(* record of an unidentified capture is attributed to "UNKNOWN".           *)
(***************************************************************************)
C14_NoPresentForUnknown ==
    \A k \in 1..Len(attendance_records) :
        attendance_records[k].status \in {"Present", "Late"} =>
            attendance_records[k].student_register_number \in Students

(***************************************************************************)
(* C15.  After a reject of a pending review, through any resolution        *)
(* operation, the status of the parent attendance record is a rejected or  *)
(* absent-equivalent value (it is no longer Pending) and its               *)
(* verification_status is rejected.                                        *)
(* /attendance/verify sets Absent and rejected.  AttendanceService sets    *)
(* verification_status and leaves the status Pending;                      *)
(* /verify_pending_attendance/{id} updates the pending verification alone. *)
(***************************************************************************)
\* record rec is as a rejection must leave it
RejectedRecord(rec) ==
    /\ rec.status \in {"Absent", "Rejected"}
    /\ rec.verification_status = "rejected"

C15_RejectMarksParent ==
    \A i \in 1..Len(pending_verifications) :
        PendingReview(i) =>
            LET a == pending_verifications[i].attendance_record_id
            IN \A user \in Users, notes \in Notes :
                authorized(user) =>
                    /\ RejectedRecord(
                           attendance_verify_result(i, "reject", notes, user)
                               .attendance_records[a])
                    /\ RejectedRecord(
                           verify_pending_result(a, "reject", user, notes)
                               .attendance_records[a])
                    /\ RejectedRecord(
                           verify_pending_attendance_result(i, "reject", None, user)
                               .attendance_records[a])

(***************************************************************************)
(* C16.  Every resolved review, approved or rejected, has a reviewer       *)
(* identity and non-empty notes persisted with it, on its pending          *)
(* verification or on its attendance record; a resolve request without     *)
(* notes does not resolve the review.                                      *)
(* No route checks the notes: /attendance/verify and /verify_pending store *)
(* the None of a request without notes.  The reject of                     *)
(* /verify_pending_attendance/{id} assigns verified_by and                 *)
(* verification_notes, which are not columns of PendingVerification, so    *)
(* neither the reviewer nor the notes are persisted.                       *)
(***************************************************************************)
\* the resolution of pending verification i is recorded with its reviewer and
\* with notes
ReviewerAndNotes(i) ==
    LET pv == pending_verifications[i]
        rec == attendance_records[pv.attendance_record_id]
    IN /\ pv.reviewed_by # None \/ rec.verified_by # None
       /\ \/ pv.reviewed_by # None /\ pv.review_notes \notin {None, ""}
          \/ rec.verified_by # None /\ rec.verification_notes \notin {None, ""}

C16_ResolvedHasReviewerAndNotes ==
    \A i \in 1..Len(pending_verifications) :
        Resolved(i) => ReviewerAndNotes(i)

(***************************************************************************)
(* C17.  In every reachable state, every attendance record whose           *)
(* verification_status is pending has exactly one pending verification     *)
(* with status pending that references it, and every pending verification  *)
(* with status pending references an existing attendance record whose      *)
(* verification_status is pending.                                         *)
(* The forgot-ID and face-only handlers of AttendanceService create the    *)
(* pending record and no PendingVerification.                              *)
(***************************************************************************)
\* the pending verifications with status pending that reference record k
pending_for(k) ==
    {i \in 1..Len(pending_verifications) :
        /\ pending_verifications[i].status = "pending"
        /\ pending_verifications[i].attendance_record_id = k}

C17_PendingRecordHasOneReview ==
    /\ \A k \in 1..Len(attendance_records) :
          attendance_records[k].verification_status = "pending" =>
              Cardinality(pending_for(k)) = 1
    /\ \A i \in 1..Len(pending_verifications) :
          pending_verifications[i].status = "pending" =>
              /\ pending_verifications[i].attendance_record_id
                     \in 1..Len(attendance_records)
              /\ attendance_records[pending_verifications[i].attendance_record_id]
                     .verification_status = "pending"

(***************************************************************************)
(* C18.  Identification over the enrolled set returns the candidate with   *)
(* the highest confidence among the active enrolled people whose           *)
(* comparison is a match at the threshold, the first of them in the order  *)
(* of enumeration when several share that confidence, and nobody exactly   *)
(* when no candidate's confidence reaches the threshold: a candidate       *)
(* exactly at the threshold is accepted.  The threshold is the one the     *)
(* comparison is made at, the matcher's; the capture is live.              *)
(* find_matching_student does so.  identify_student_from_face and          *)
(* create_pending_verification pass the best match through a second test,  *)
(* best_confidence > 0.5 and best_confidence > 0.4: with the matcher's     *)
(* threshold at the 0.4 of the .env file, a candidate that matches at 0.5  *)
(* or below, or exactly at 0.4, is dropped.                                *)
(***************************************************************************)
\* the active enrolled people whose comparison with img is a match at threshold
Candidates(img, threshold) ==
    {r \in Students : enrolled(r) /\ img.face /\ img.sim[r] >= threshold}

\* the candidate identification must return: the first in the order of
\* enumeration of those with the highest confidence, None when there is none
BestCandidate(img, threshold) ==
    LET c == Candidates(img, threshold)
        top == {r \in c : \A q \in c : img.sim[q] <= img.sim[r]}
    IN IF c = {} THEN None
       ELSE StudentOrder[CHOOSE i \in 1..Len(StudentOrder) :
                            /\ StudentOrder[i] \in top
                            /\ \A j \in 1..(i - 1) : StudentOrder[j] \notin top]

C18_IdentificationReturnsBest ==
    \A img \in Probes :
        img.live =>
            LET best == BestCandidate(img, env.SIAMESE_THRESHOLD)
            IN /\ find_matching_student(img)[1] = best
               /\ identify_student_from_face_result(img).resp.register_number = best
               /\ NewRecord(create_pending_verification_result(img))
                      .student_register_number
                      = IF best = None THEN UNKNOWN ELSE best

(***************************************************************************)
(* C19.  For a fixed pair of embeddings (a fixed similarity), the match    *)
(* decision is monotone in the threshold: a pair that is not a match at    *)
(* threshold t is not a match at any threshold t' >= t.  This is so of the *)
(* comparison itself (is_match = similarity >= threshold), of the Siamese  *)
(* matcher in its threshold, and of FaceRecognitionService.verify_face in  *)
(* its threshold argument, which has no influence on the decision while   *)
(* the Siamese matcher is in use.                                          *)
(***************************************************************************)
C19_ThresholdMonotone ==
    /\ \A similarity \in ProbeSims, t1 \in Thresholds, t2 \in Thresholds :
          (t1 <= t2 /\ ~is_match(similarity, t1)) => ~is_match(similarity, t2)
    /\ \A img \in Probes, reg \in Students, t \in Thresholds :
          (env.SIAMESE_THRESHOLD <= t /\ ~siamese_verify_face(img, reg)[1]) =>
              (img.face => ~is_match(img.sim[reg], t))
    /\ \A img \in Probes, reg \in Students, t1 \in Thresholds, t2 \in Thresholds :
          (t1 <= t2 /\ ~verify_face(img, reg, t1)[1]) => ~verify_face(img, reg, t2)[1]

\* verify_face has just answered that a face is not a match for the stored
\* embedding it was compared with, at a threshold below the highest
C19_Witness ==
    /\ last.op = "verify_face"
    /\ LET img == last.arg[1]
           reg == last.arg[2]
           threshold == last.arg[3]
       IN /\ img.face
          /\ students[reg].face_encoding
          /\ ~last.resp[1]
          /\ last.resp[2] = img.sim[reg]
          /\ \E t \in Thresholds : t > threshold

(***************************************************************************)
(* C20.  Whenever the liveness evaluator fails or cannot resolve face      *)
(* landmarks, the liveness result is (live = true, score = 1.0), so that a *)
(* failure of the liveness subsystem alone never makes a capture not live  *)
(* or a verification rejected.                                             *)
(* An exception in check_liveness gives (True, 1.0).  When the face mesh   *)
(* resolves no landmarks, _check_face_mesh_liveness returns 0.0, which     *)
(* enters the weighted score as its half: the frame is live only if the    *)
(* texture and colour scores alone reach the threshold, and                *)
(* verify_face_with_liveness rejects the verification when they do not.    *)
(* When the mesh is not available or raises, its score is 1.0 and the      *)
(* frame is live, with the weighted score and not 1.0.                     *)
(***************************************************************************)
\* the evaluator fails on the frame, or cannot resolve face landmarks in it
EvaluatorFails(frame) ==
    /\ frame.decodes
    /\ frame.raises \/ frame.mesh_state \in {"unavailable", "no_landmarks", "raises"}

C20_EvaluatorFailureIsLive ==
    \A frame \in Frames :
        EvaluatorFails(frame) =>
            /\ siamese_check_liveness(frame) = <<TRUE, 100>>
            /\ face_service_check_liveness(frame) = <<TRUE, 100>>
            /\ \A reg \in Students :
                  LET v == verify_face_with_liveness(ImageOf(frame, HighSim, HighSim), reg)
                  IN v[3] /\ v[1]

(***************************************************************************)
(* The token decoder.                                                      *)
(***************************************************************************)
\* the strategy an attempt belongs to: 1 direct decode (the image as it came,
\* in colour and in grey), 2 contrast and sharpening enhancement, 3 region of
\* interest, 4 scales, 5 rotation, 6 OCR
Strategy(a) ==
    CASE a.stage = "processed" /\ a.image \in {"color", "gray"} -> 1
      [] a.stage = "processed"
         /\ a.image \in {"bottom", "bottom_equalized", "bottom_otsu", "bottom_adaptive"} -> 3
      [] a.stage = "processed" -> 2
      [] a.stage = "scale" -> 4
      [] a.stage = "rotation" -> 5
      [] a.stage = "ocr" -> 6

\* the attempts that read the text of the card
ReadingAttempts(scan) == {i \in 1..Len(attempts) : attempts[i] \in scan.readers}

\* C21: decode_qr_from_image makes its attempts strategy by strategy, in the
\* order direct decode, enhancement, region of interest, scales, rotation,
\* OCR: when it makes an attempt, every attempt of every earlier strategy has
\* been made before it (and has failed); and it returns what the first attempt
\* that reads a text yields, making no attempt after that one.
C21_StrategiesInOrderFirstSuccessReturns ==
    last.op = "decode_qr_from_image" =>
        LET made == last.resp.made
            reads == ReadingAttempts(last.arg)
        IN /\ \A j \in 1..made : \A i \in 1..Len(attempts) :
                 Strategy(attempts[i]) < Strategy(attempts[j]) => i < j
           /\ reads # {} =>
                 /\ made = Leftmost(reads)
                 /\ last.resp.value # PyNone

\* the identifier the rule of the specification takes from a text: the whole
\* text if it is all digits and 5 to 9 long (7 included); else the first
\* complete run of exactly 7 digits; else the first complete run of 5 to 9
\* digits; else none
ExtractionRule(text) ==
    LET runs == text.runs
        seven == Leftmost({k \in 1..Len(runs) : runs[k] = Run("d", 7)})
        band == Leftmost({k \in 1..Len(runs) : runs[k].c = "d" /\ runs[k].n \in 5..9})
    IN IF isdigit(runs) /\ len(runs) \in 5..9
       THEN Whole(text)
       ELSE IF seven # 0
            THEN Digits(seven, 0, 7)
            ELSE IF band # 0 THEN Digits(band, 0, runs[band].n) ELSE NoStr

\* the identifier a value of the decoder carries, as verify_student_qr takes
\* it: register_number, or else data
IdentifierOf(o) ==
    IF ~o.returns \/ o.value.py # "dict"
    THEN NoStr
    ELSE IF o.value.register_number # None THEN ObjectRegister ELSE o.value.data

\* where in the text a string taken from it starts, and its characters: two
\* strings taken from one text are the same string if they agree in this
Span(str) ==
    IF str.kind = "whole" THEN <<1, 0, str.runs>> ELSE <<str.at, str.off, str.runs>>

\* C22: whatever text an attempt reads, the identifier decode_qr_from_image
\* returns for it, and the register number detect_face_and_id and
\* detect_barcode report for it, is the one the extraction rule gives: the
\* whole text if all digits of length 5 to 9, else the first complete run of 7
\* digits, else the first complete run of 5 to 9 digits, else none.
C22_ExtractionRuleAtEverySite ==
    last.op = "extract" =>
        LET rule == ExtractionRule(last.arg.text)
        IN /\ Span(IdentifierOf(last.resp.decoded)) = Span(rule)
           /\ Span(last.resp.face_and_id) = Span(rule)
           /\ Span(last.resp.barcode) = Span(rule)

(***************************************************************************)
(* C23.  A capture or a resolution that answers with an error leaves no    *)
(* write behind.                                                           *)
(***************************************************************************)
\* result r answers with an error
ErrorResponse(r) == r.resp.status = "error" \/ r.resp.code >= 400

\* if result r answers with an error, the tables and the stored embeddings
\* are as they were before the request
NothingPersists(r) ==
    ErrorResponse(r) => Untouched(r) /\ r.students = students

\* C23: whatever the state and the request, a capture or a resolution request
\* that ends with an error response leaves the store exactly as it was before
\* the request: no AttendanceRecord, no PendingVerification and no embedding
\* written during the request remains.
C23_ErrorLeavesNoWrite ==
    /\ \A img \in Images, reg \in RegisterNumbers :
          /\ NothingPersists(mark_attendance_verified_result(img, reg))
          /\ NothingPersists(mark_attendance_result(img, QrImage(reg), None))
          /\ NothingPersists(mark_attendance_result(img, NoQr, reg))
          /\ NothingPersists(mark_attendance_with_liveness_result(img, QrImage(reg), None))
    /\ \A img \in Images :
          /\ NothingPersists(mark_attendance_result(img, NoQr, None))
          /\ NothingPersists(create_pending_verification_result(img))
    /\ \A manual \in RegisterNumbers, identified \in IdentifiedRegisterNumbers :
          NothingPersists(create_manual_pending_verification_result(manual, identified))
    /\ \A id \in Ids, action \in Actions, user \in Users, notes \in Notes :
          /\ NothingPersists(verify_pending_result(id, action, user, notes))
          /\ NothingPersists(attendance_verify_result(id, action, notes, user))
          /\ \A reg \in {None} \cup RegisterNumbers :
                NothingPersists(verify_pending_attendance_result(id, action, reg, user))

(***************************************************************************)
(* C25.  The notified flag is true only if the notification was sent.      *)
(***************************************************************************)
\* C25: notification_sent of an AttendanceRecord, and notification_sent of
\* the response of a capture, is true only if the dispatch of the notification
\* for that outcome succeeded; when the dispatch fails or is not performed the
\* flag is false.
C25_NotifiedOnlyIfDispatched ==
    /\ \A i \in 1..Len(attendance_records) :
          attendance_records[i].notification_sent =>
              send_attendance_notification = "success"
    /\ \A img \in Images, available \in BOOLEAN, stored \in BOOLEAN :
          create_pending_verification_notification_sent(img, available, stored) =>
              send_case_c_notification(available, stored).dispatched
    /\ \A manual \in Students, identified \in IdentifiedRegisterNumbers :
          (/\ create_manual_pending_verification_result(manual, identified).resp.code = 200
           /\ create_manual_pending_verification_notification_sent) =>
              send_forgot_id_notification.dispatched

(***************************************************************************)
(* C26.  The states of a review.                                           *)
(***************************************************************************)
\* result r changes the status of no review, or takes reviews from pending
\* to approved or rejected
LegalTransitions(r) ==
    /\ Len(r.pending_verifications) = Len(pending_verifications)
    /\ \A i \in 1..Len(pending_verifications) :
          r.pending_verifications[i].status # pending_verifications[i].status =>
              /\ pending_verifications[i].status = "pending"
              /\ r.pending_verifications[i].status \in {"approved", "rejected"}

\* result r of a request with this action: a legal transition, and if the
\* action is neither approve nor reject (in whatever case it is written) an
\* error that changes nothing
LegalResolution(r, action) ==
    /\ LegalTransitions(r)
    /\ lower(action) \notin {"approve", "reject"} =>
          /\ ErrorResponse(r)
          /\ Untouched(r)

\* C26: the status of every PendingVerification is pending, approved or
\* rejected; a resolution changes a status only from pending to approved or
\* from pending to rejected; and a resolution request whose action is neither
\* approve nor reject is refused with an error and changes no
\* PendingVerification and no AttendanceRecord.
C26_ReviewStatusMachine ==
    /\ \A i \in 1..Len(pending_verifications) :
          pending_verifications[i].status \in {"pending", "approved", "rejected"}
    /\ \A id \in Ids, action \in Actions, user \in Users, notes \in Notes :
          /\ LegalResolution(verify_pending_result(id, action, user, notes), action)
          /\ LegalResolution(attendance_verify_result(id, action, notes, user), action)
          /\ \A reg \in {None} \cup RegisterNumbers :
                LegalResolution(verify_pending_attendance_result(id, action, reg, user),
                                action)

(***************************************************************************)
(* C27.  Present and Late come from a match against a stored embedding.    *)
(***************************************************************************)
\* result r added a verified Present or Late record
CreatesVerified(r) ==
    /\ AddedRecord(r)
    /\ NewRecord(r).status \in {"Present", "Late"}
    /\ NewRecord(r).verification_status = "verified"

\* C27: a capture creates a verified Present or Late record only if the
\* person of the token had an embedding stored before the request began and
\* the matcher compared the captured face with it and found a match; a
\* capture for a person without a stored embedding yields no Present or Late.
C27_VerifiedNeedsStoredEmbedding ==
    \A img \in Images, reg \in RegisterNumbers :
        /\ CreatesVerified(mark_attendance_verified_result(img, reg)) =>
              /\ reg \in Students
              /\ students[reg].face_encoding
              /\ verify_face_with_liveness(img, reg)[1]
        /\ CreatesVerified(mark_attendance_result(img, QrImage(reg), None)) =>
              /\ reg \in Students
              /\ students[reg].face_encoding
              /\ verify_face(img, reg, VERIFY_FACE_DEFAULT_THRESHOLD)[1]
        /\ CreatesVerified(mark_attendance_with_liveness_result(img, QrImage(reg), None)) =>
              /\ reg \in Students
              /\ students[reg].face_encoding
              /\ verify_face(img, reg, VERIFY_FACE_DEFAULT_THRESHOLD)[1]

(***************************************************************************)
(* C28.  The two entry points for a token and a face.                      *)
(***************************************************************************)
\* C28: for a token image that decodes to an active enrolled person P, a live
\* face that matches P's embedding for both matchers, and no record for P
\* today, POST /mark_attendance creates the record POST
\* /mark_attendance_verified creates for P: both add a verified record for P,
\* today, with the same time and the same status Present or Late.
C28_EntryPointsAgree ==
    \A img \in Images, P \in Students :
        (TokenFaceMatch(img, P) /\ verify_face(img, P, VERIFY_FACE_DEFAULT_THRESHOLD)[1]) =>
            LET a == mark_attendance_with_liveness_result(img, QrImage(P), None)
                b == mark_attendance_verified_result(img, P)
            IN /\ CreatesVerified(a)
               /\ CreatesVerified(b)
               /\ NewRecord(a).student_register_number = NewRecord(b).student_register_number
               /\ NewRecord(a).date = NewRecord(b).date
               /\ NewRecord(a).time = NewRecord(b).time
               /\ NewRecord(a).status = NewRecord(b).status

(***************************************************************************)
(* C29.  One cutoff for every decision between Present and Late.           *)
(***************************************************************************)
\* C29: whatever ATTENDANCE_CUTOFF_TIME is configured and whatever the time
\* of the capture, the places that decide between Present and Late decide
\* alike: a capture through AttendanceService and one through
\* /mark_attendance_verified record the same status, and an approval through
\* AttendanceService and one through /attendance/verify give the record the
\* same status.
C29_OneCutoff ==
    /\ \A img \in Images, P \in Students :
          LET a == mark_attendance_result(img, QrImage(P), None)
              b == mark_attendance_verified_result(img, P)
          IN (CreatesVerified(a) /\ CreatesVerified(b)) =>
                 NewRecord(a).status = NewRecord(b).status
    /\ \A i \in 1..Len(pending_verifications), user \in Users, notes \in Notes :
          LET id == pending_verifications[i].attendance_record_id
              a == verify_pending_result(id, "approve", user, notes)
              b == attendance_verify_result(i, "approve", notes, user)
          IN (a.resp.status = "success" /\ b.resp.status = "success") =>
                 a.attendance_records[id].status = b.attendance_records[id].status

(***************************************************************************)
(* C30.  A card that carries the register number alone.                    *)
(***************************************************************************)
\* the card carries seven digits and nothing else, and some attempt reads them
SevenDigitsRead(scan) ==
    /\ scan.text.form = "plain"
    /\ isdigit(scan.text.runs) /\ len(scan.text.runs) = 7
    /\ ReadingAttempts(scan) # {}

\* C30: if an attempt of the decoder reads a plain string of seven digits,
\* decode_qr_from_image returns at that attempt (the first that reads it) a
\* mapping that carries the string as the identifier, never a bare integer
\* and never after going on to a later attempt; and detect_face_and_id reports
\* id_detected true with that string as the register number.
C30_SevenDigitsDecoded ==
    /\ (last.op = "decode_qr_from_image" /\ SevenDigitsRead(last.arg)) =>
          /\ last.resp.made = Leftmost(ReadingAttempts(last.arg))
          /\ last.resp.value.py = "dict"
          /\ Span(last.resp.value.data) = Span(Whole(last.arg.text))
    /\ (last.op = "detect_face_and_id" /\ SevenDigitsRead(last.arg[2])) =>
          /\ last.resp.id_detected
          /\ Span(last.resp.register_number) = Span(Whole(last.arg[2].text))

(***************************************************************************)
(* C24.  Enrolment is serialized per person.                               *)
(***************************************************************************)
\* task t has read the student row and has not yet written the embedding
BetweenReadAndWrite(t) == loop.tasks[t].pc \in {"encode", "write"}

\* task t holds what it read of the student row, to verify against or to replace
HoldsRead(t) == loop.tasks[t].pc \in {"verify", "encode", "write"}

\* C24: read student -> encode face -> write embedding is serialized per
\* person.  While a request is between its read of a student and its write of
\* that student's embedding, no other request for the same student has read
\* the row and holds it, and the stored embedding is still as the request read
\* it: nobody wrote it in between, so a student without an embedding is
\* enrolled for the first time by one request at most.
C24_EnrolmentSerializedPerPerson ==
    \A t \in Tasks :
        BetweenReadAndWrite(t) =>
            /\ \A u \in Tasks \ {t} :
                  loop.tasks[u].reg = loop.tasks[t].reg => ~HoldsRead(u)
            /\ students[loop.tasks[t].reg].face_encoding = loop.tasks[t].seen

\* a request has enrolled a student at first sight while another request for
\* the same student, accepted before the write, waits for the loop
C24_Witness ==
    \E t \in Tasks, u \in Tasks :
        /\ t # u
        /\ loop.tasks[t].op = "mark_attendance_verified"
        /\ loop.tasks[t].pc = "record"
        /\ ~loop.tasks[t].seen
        /\ loop.tasks[t].v[2] = FIRST_SIGHT_CONFIDENCE
        /\ students[loop.tasks[t].reg].face_encoding
        /\ loop.tasks[u].op \in {"mark_attendance_verified", "store_face_encoding"}
        /\ loop.tasks[u].pc = "await_read"
        /\ loop.tasks[u].reg = loop.tasks[t].reg
        /\ encode_face(loop.tasks[u].img)
====
